---- MODULE Spec2Model ----
(***************************************************************************)
(* Model of the MR acquisition container of SIRF's Gadgetron layer:        *)
(* MRAcquisitionData / AcquisitionsVector / KSpaceSubset                   *)
(* (gadgetron_data_containers.h, gadgetron_data_containers.cpp).           *)
(*                                                                         *)
(* A container is a record                                                 *)
(*   acqs_      physical vector of acquisitions (slot p is acqs_[p + 1])   *)
(*   index_     permutation index, logical position -> physical slot       *)
(*   sorted_    the sorted flag                                            *)
(*   sorting_   the list of KSpaceSubsets (tag, idx_set)                   *)
(*   acqs_info_ the header: number of encodings and the encoding limits    *)
(* Every operation is an operator from the containers before the call to   *)
(* the containers after it plus the way the call ended: "ok" (normal       *)
(* return), "throw" (an exception left the call) or "crash" (the process   *)
(* died on undefined behaviour).                                           *)
(*                                                                         *)
(* State: cont, the containers by name; last, the call made last (its      *)
(* name, receiver, arguments, outcome and return value); fresh, the        *)
(* containers never sorted; heap, the acquisition objects by address       *)
(* (SpecMem only, where acqs_ holds addresses); file, the file written by  *)
(* write(); mutex, the process-wide I/O lock.                              *)
(*                                                                         *)
(* Specifications:                                                         *)
(*   Spec     one container: append, sort, organise, order, empty          *)
(*   SpecAlg  containers x, y, z and one algebra call                      *)
(*   SpecMem  ownership of the acquisition objects: copies, clone, subsets *)
(*   SpecIO   write() and read() with the I/O lock                         *)
(*   SpecIgn  acquisitions to be ignored in reductions, algebra and read() *)
(*   SpecABI  the C entry points of cgadgetron.cpp                         *)
(*   SpecImg  the algebra of image containers (GadgetronImagesVector)      *)
(*   SpecGeom the geometry of an image container (set_up_geom_info)        *)
(*   SpecCsm  coil sensitivity maps: forward and backward                  *)
(*   SpecCal  coil images of acquisition data (calculate)                  *)
(*   SpecKern the kernels on single acquisitions                           *)
(*   SpecLoop the loops of the algebra and the reductions, step by step;   *)
(*            SpecLoopFair is SpecLoop with weak fairness of the steps     *)
(***************************************************************************)
EXTENDS Integers, Sequences, FiniteSets, TLC

VARIABLES cont, last, fresh, heap, file, mutex

vars == <<cont, last, fresh, heap, file, mutex>>

(***************************************************************************)
(* Bounds of the model.                                                    *)
(***************************************************************************)
MaxN == 3
MaxOperand == 2

(***************************************************************************)
(* Acquisition flags (bit numbers, ismrmrd.h) used by the ignore filter.   *)
(***************************************************************************)
ISMRMRD_ACQ_IS_NOISE_MEASUREMENT == 19
ISMRMRD_ACQ_IS_PARALLEL_CALIBRATION == 20
ISMRMRD_ACQ_IS_PARALLEL_CALIBRATION_AND_IMAGING == 21
ISMRMRD_ACQ_IS_REVERSE == 22
ISMRMRD_ACQ_LAST_IN_MEASUREMENT == 25

Pow2(n) == 2^n

RECURSIVE SumPow(_)
SumPow(S) ==
    IF S = {} THEN 0
    ELSE LET f == CHOOSE g \in S : TRUE IN Pow2(f - 1) + SumPow(S \ {f})

\* Acquisition::flags(): the 64-bit flags word of a set of flag numbers
flags(acq) == SumPow(acq.flags)

\* Acquisition::isFlagSet(val): bit val-1 of the flags word
isFlagSet(acq, val) == val \in acq.flags

TO_BE_IGNORED(acq) ==
    /\ ~isFlagSet(acq, ISMRMRD_ACQ_IS_PARALLEL_CALIBRATION)
    /\ ~isFlagSet(acq, ISMRMRD_ACQ_IS_PARALLEL_CALIBRATION_AND_IMAGING)
    /\ ~isFlagSet(acq, ISMRMRD_ACQ_LAST_IN_MEASUREMENT)
    /\ ~isFlagSet(acq, ISMRMRD_ACQ_IS_REVERSE)
    /\ flags(acq) >= Pow2(ISMRMRD_ACQ_IS_NOISE_MEASUREMENT - 1)

(***************************************************************************)
(* Acquisitions: time stamp, flags, the index tuple and the sample data.   *)
(***************************************************************************)
EncodingCounters(avg, sl, co, ph, rep, st) ==
    [average |-> avg, slice |-> sl, contrast |-> co, phase |-> ph,
     repetition |-> rep, set |-> st]

Acquisition(ts, fl, sl, co, d) ==
    [ts |-> ts, flags |-> fl, idx |-> EncodingCounters(0, sl, co, 0, 0, 0),
     data |-> d]

(***************************************************************************)
(* Headers.  A limit is <<>> (Optional not present) or <<minimum, maximum>>.*)
(***************************************************************************)
EncodingLimits(avg, sl, co, ph, rep, st) ==
    [average |-> avg, slice |-> sl, contrast |-> co, phase |-> ph,
     repetition |-> rep, set |-> st]

NoLimits == EncodingLimits(<<>>, <<>>, <<>>, <<>>, <<>>, <<>>)

\* AcquisitionsInfo(): no serialized header, the parsed header has no encoding
AcquisitionsInfo == [nenc |-> 0, lims |-> NoLimits]

Header(nenc, lims) == [nenc |-> nenc, lims |-> lims]

\* AcquisitionsVector(info): an empty, unsorted container
AcquisitionsVector(info) ==
    [acqs_ |-> <<>>, index_ |-> <<>>, sorted_ |-> FALSE, sorting_ |-> <<>>,
     acqs_info_ |-> info]

number(c) == Len(c.acqs_)

\* DataContainer::is_empty(): the container holds no items
is_empty(c) == number(c) < 1

(***************************************************************************)
(* MRAcquisitionData::index(int): logical position -> physical slot.       *)
(***************************************************************************)
index(c, i) ==
    LET ni == Len(c.index_) IN
    IF i < 0 \/ (ni > 0 /\ i >= ni) \/ i >= number(c)
    THEN [out |-> "throw", ind |-> 0]
    ELSE IF ni > 0 THEN [out |-> "ok", ind |-> c.index_[i + 1]]
         ELSE [out |-> "ok", ind |-> i]

\* AcquisitionsVector::get_acquisition: copy of logical element num and the
\* return value (0 when the acquisition is to be ignored)
get_acquisition(c, num) ==
    LET r == index(c, num) IN
    IF r.out = "throw" THEN [out |-> "throw", acq |-> <<>>, ret |-> 0]
    ELSE LET acq == c.acqs_[r.ind + 1] IN
         [out |-> "ok", acq |-> acq,
          ret |-> IF /\ ~isFlagSet(acq, ISMRMRD_ACQ_IS_PARALLEL_CALIBRATION)
                     /\ ~isFlagSet(acq, ISMRMRD_ACQ_IS_PARALLEL_CALIBRATION_AND_IMAGING)
                     /\ ~isFlagSet(acq, ISMRMRD_ACQ_LAST_IN_MEASUREMENT)
                     /\ ~isFlagSet(acq, ISMRMRD_ACQ_IS_REVERSE)
                     /\ flags(acq) >= Pow2(ISMRMRD_ACQ_IS_NOISE_MEASUREMENT - 1)
                  THEN 0 ELSE 1]

\* AcquisitionsVector::append_acquisition: a copy goes to the physical end
append_acquisition(c, acq) == [c EXCEPT !.acqs_ = Append(@, acq)]

\* AcquisitionsVector::set_acquisition: overwrite logical element num
set_acquisition(c, num, acq) ==
    LET r == index(c, num) IN
    IF r.out = "throw" THEN [out |-> "throw", c |-> c]
    ELSE [out |-> "ok", c |-> [c EXCEPT !.acqs_[r.ind + 1] = acq]]

\* AcquisitionsVector::empty
empty(c) == [c EXCEPT !.acqs_ = <<>>, !.index_ = <<>>]

(***************************************************************************)
(* KSpaceSubset.                                                           *)
(***************************************************************************)
\* KSpaceSubset(tag): a subset with an empty index set
KSpaceSubset(tag) == [tag |-> tag, idx_set |-> <<>>]

\* KSpaceSubset::get_tag_from_acquisition (the user ints, always 0, are left out)
get_tag_from_acquisition(acq) ==
    <<acq.idx.average, acq.idx.slice, acq.idx.contrast, acq.idx.phase,
      acq.idx.repetition, acq.idx.set, 0>>

get_num_enc_states(enc_lim) ==
    IF enc_lim = <<>> THEN 1 ELSE enc_lim[2] - enc_lim[1] + 1

\* the extents NAvg, NSlice, NCont, NPhase, NRep, NSet, NSegm
NumStates(enc_lims) ==
    <<get_num_enc_states(enc_lims.average), get_num_enc_states(enc_lims.slice),
      get_num_enc_states(enc_lims.contrast), get_num_enc_states(enc_lims.phase),
      get_num_enc_states(enc_lims.repetition), get_num_enc_states(enc_lims.set),
      1>>

\* the flattened row-major position of a tag
AccessIdx(tag, N) ==
    (((((tag[1] * N[2] + tag[2]) * N[3] + tag[3]) * N[4] + tag[4]) * N[5]
        + tag[5]) * N[6] + tag[6]) * N[7] + tag[7]

\* the tag the seven nested loops give to the q-th subset they push (q from 0)
LoopTag(q, N) ==
    <<q \div (N[2] * N[3] * N[4] * N[5] * N[6] * N[7]),
      (q \div (N[3] * N[4] * N[5] * N[6] * N[7])) % N[2],
      (q \div (N[4] * N[5] * N[6] * N[7])) % N[3],
      (q \div (N[5] * N[6] * N[7])) % N[4],
      (q \div (N[6] * N[7])) % N[5],
      (q \div N[7]) % N[6],
      q % N[7]>>

\* the subsets pushed by the nested loops (none if an extent is not positive)
CreateSubsets(N) ==
    IF \E d \in 1..7 : N[d] <= 0 THEN <<>>
    ELSE [q \in 1..(N[1] * N[2] * N[3] * N[4] * N[5] * N[6] * N[7]) |->
            KSpaceSubset(LoopTag(q - 1, N))]

\* the scan of organise_kspace from logical element i0 on (c, i and N range
\* over sets of one element, which makes TLC evaluate each argument once)
RECURSIVE AssignLoop(_, _, _)
AssignLoop(c0, i0, N0) ==
    CHOOSE res \in
      {IF i >= number(c) THEN [out |-> "ok", c |-> c]
       ELSE LET g == get_acquisition(c, i) IN
            IF g.out = "throw" THEN [out |-> "throw", c |-> c]
            ELSE LET tag == get_tag_from_acquisition(g.acq)
                     access_idx == AccessIdx(tag, N)
                 IN IF access_idx < 0 \/ access_idx >= Len(c.sorting_)
                    THEN [out |-> "throw", c |-> c]
                    ELSE AssignLoop(
                           [c EXCEPT !.sorting_[access_idx + 1].idx_set = Append(@, i)],
                           i + 1, N) : c \in {c0}, i \in {i0}, N \in {N0}} : TRUE

\* organise_kspace without the final erase of the empty subsets
organise_kspace_keeps_empty(c, ub) ==
    LET c0 == [c EXCEPT !.sorting_ = <<>>]
        nenc == c.acqs_info_.nenc
    IN IF nenc > 1 THEN [out |-> "throw", c |-> c0]
       ELSE IF nenc = 0 /\ ub.kind = "crash" THEN [out |-> "crash", c |-> c0]
       ELSE LET enc_lims == IF nenc = 0 THEN ub.lims ELSE c.acqs_info_.lims
                N == NumStates(enc_lims)
            IN AssignLoop([c0 EXCEPT !.sorting_ = CreateSubsets(N)], 0, N)

\* MRAcquisitionData::organise_kspace.  ub is the outcome of reading
\* encoding_vector[0] of a header that has no encoding.
organise_kspace(c, ub) ==
    LET c0 == [c EXCEPT !.sorting_ = <<>>]
        nenc == c.acqs_info_.nenc
    IN IF nenc > 1 THEN [out |-> "throw", c |-> c0]
       ELSE IF nenc = 0 /\ ub.kind = "crash" THEN [out |-> "crash", c |-> c0]
       ELSE LET enc_lims == IF nenc = 0 THEN ub.lims ELSE c.acqs_info_.lims
                N == NumStates(enc_lims)
            IN CHOOSE res \in
                 {IF r.out # "ok" THEN r
                  ELSE [out |-> "ok",
                        c |-> [r.c EXCEPT !.sorting_ =
                                 SelectSeq(@, LAMBDA s : s.idx_set # <<>>)]] :
                    r \in {AssignLoop([c0 EXCEPT !.sorting_ = CreateSubsets(N)], 0, N)}} : TRUE

(***************************************************************************)
(* Sorting.                                                                *)
(***************************************************************************)
\* std::vector<int>::resize(N): truncate, or pad with zeros
Resize(v, N) == [i \in 1..N |-> IF i <= Len(v) THEN v[i] ELSE 0]

\* place i behind every element whose key is not greater than that of i
RECURSIVE InsertStable(_, _, _)
InsertStable(s, i, a) ==
    IF s = <<>> THEN <<i>>
    ELSE IF a[i + 1] < a[Head(s) + 1] THEN <<i>> \o s
         ELSE <<Head(s)>> \o InsertStable(Tail(s), i, a)

\* std::stable_sort of the sequence v with the comparison a[i] < a[j]
RECURSIVE stable_sort(_, _)
stable_sort(v, a) ==
    IF v = <<>> THEN <<>>
    ELSE InsertStable(stable_sort(SubSeq(v, 1, Len(v) - 1), a), v[Len(v)], a)

\* MRAcquisitionData::sort_by_time
sort_by_time(c, ub) ==
    LET N == number(c)
        c1 == [c EXCEPT !.index_ = Resize(@, N)]
        a == [i \in 1..N |-> get_acquisition(c1, i - 1).acq.ts]
        iota == [i \in 1..N |-> i - 1]
        c2 == IF N = 0 THEN c1 ELSE [c1 EXCEPT !.index_ = stable_sort(iota, a)]
        r == organise_kspace(c2, ub)
    IN IF r.out # "ok" THEN r
       ELSE [out |-> "ok", c |-> [r.c EXCEPT !.sorted_ = TRUE]]

\* MRAcquisitionData::sort
sort(c, ub) == sort_by_time(c, ub)

\* get_kspace_order without the test for an empty list of subsets
get_kspace_order_unchecked(c) ==
    IF is_empty(c) THEN [out |-> "throw", ret |-> <<>>]
    ELSE LET kept == SelectSeq(c.sorting_, LAMBDA s : s.idx_set # <<>>) IN
         [out |-> "ok", ret |-> [i \in 1..Len(kept) |-> kept[i].idx_set]]

\* MRAcquisitionData::get_kspace_order
get_kspace_order(c) ==
    IF is_empty(c) THEN [out |-> "throw", ret |-> <<>>]
    ELSE IF Len(c.sorting_) = 0 THEN [out |-> "throw", ret |-> <<>>]
    ELSE LET kept == SelectSeq(c.sorting_, LAMBDA s : s.idx_set # <<>>) IN
         [out |-> "ok", ret |-> [i \in 1..Len(kept) |-> kept[i].idx_set]]

(***************************************************************************)
(* Elementwise algebra: the per-acquisition kernels.  A sample value      *)
(* (complex_float_t) is a pair <<re, im>> of integers; the scalar          *)
(* functions are those of DataContainer.                                   *)
(***************************************************************************)
Min2(a, b) == IF a < b THEN a ELSE b

\* complex_float_t and its arithmetic
Complex(re, im) == <<re, im>>

Re(v) == v[1]

CAdd(u, v) == <<u[1] + v[1], u[2] + v[2]>>

CMul(u, v) == <<u[1] * v[1] - u[2] * v[2], u[1] * v[2] + u[2] * v[1]>>

\* std::conj
Conj(v) == <<v[1], 0 - v[2]>>

\* the integer part of the square root
Isqrt(n) == CHOOSE r \in 0..n : r * r <= n /\ n < (r + 1) * (r + 1)

\* DataContainer::abs: the modulus, rounded down to an integer
UnaryFn(f, v) ==
    CASE f = "abs" -> Complex(Isqrt(v[1] * v[1] + v[2] * v[2]), 0)

\* DataContainer::product, sum, maxreal, minreal
BinaryFn(f, u, v) ==
    CASE f = "multiply" -> CMul(u, v)
      [] f = "add" -> CAdd(u, v)
      [] f = "maximum" -> IF Re(u) > Re(v) THEN u ELSE v
      [] f = "minimum" -> IF Re(u) < Re(v) THEN u ELSE v

\* MRAcquisitionData::axpby(a, acq_x, b, acq_y)
axpby_acq(a, acq_x, b, acq_y) ==
    LET n == Min2(Len(acq_x.data), Len(acq_y.data)) IN
    [acq_y EXCEPT !.data = [s \in 1..Len(acq_y.data) |->
        IF s > n THEN acq_y.data[s]
        ELSE IF b = Complex(0, 0) THEN CMul(a, acq_x.data[s])
        ELSE CAdd(CMul(a, acq_x.data[s]), CMul(b, acq_y.data[s]))]]

\* MRAcquisitionData::xapyb(acq_x, a, acq_y, b) with two scalars
xapyb_acq_ab(acq_x, a, acq_y, b) == axpby_acq(a, acq_x, b, acq_y)

\* MRAcquisitionData::xapyb(acq_x, acq_a, acq_y, acq_b).  The loop condition
\* is a comma expression: only py and pb are tested, so px and pa are read
\* past their ends when acq_y and acq_b are both longer; such a read yields
\* junk.
xapyb_acq(acq_x, acq_a, acq_y, acq_b, junk) ==
    LET n == Min2(Len(acq_y.data), Len(acq_b.data))
        px(s) == IF s <= Len(acq_x.data) THEN acq_x.data[s] ELSE junk
        pa(s) == IF s <= Len(acq_a.data) THEN acq_a.data[s] ELSE junk
    IN [acq_y EXCEPT !.data = [s \in 1..Len(acq_y.data) |->
        IF s > n THEN acq_y.data[s]
        ELSE CAdd(CMul(pa(s), px(s)), CMul(acq_b.data[s], acq_y.data[s]))]]

\* MRAcquisitionData::xapyb(acq_x, a, acq_y, acq_b) with the scalar a
xapyb_acq_b(acq_x, a, acq_y, acq_b) ==
    LET n == Min2(Len(acq_x.data), Min2(Len(acq_y.data), Len(acq_b.data))) IN
    [acq_y EXCEPT !.data = [s \in 1..Len(acq_y.data) |->
        IF s > n THEN acq_y.data[s]
        ELSE CAdd(CMul(a, acq_x.data[s]), CMul(acq_b.data[s], acq_y.data[s]))]]

\* MRAcquisitionData::binary_op(acq_x, acq_y, f): y[s] := f(x[s], y[s])
binary_op_acq(acq_x, acq_y, f) ==
    LET n == Min2(Len(acq_x.data), Len(acq_y.data)) IN
    [acq_y EXCEPT !.data = [s \in 1..Len(acq_y.data) |->
        IF s > n THEN acq_y.data[s]
        ELSE BinaryFn(f, acq_x.data[s], acq_y.data[s])]]

\* MRAcquisitionData::semibinary_op(acq_x, acq_y, y, f): y[s] := f(x[s], y)
semibinary_op_acq(acq_x, acq_y, y, f) ==
    LET n == Min2(Len(acq_x.data), Len(acq_y.data)) IN
    [acq_y EXCEPT !.data = [s \in 1..Len(acq_y.data) |->
        IF s > n THEN acq_y.data[s] ELSE BinaryFn(f, acq_x.data[s], y)]]

\* MRAcquisitionData::unary_op(acq_x, acq_y, f): y[s] := f(x[s]) up to the
\* shorter of the two sample arrays
unary_op_acq(acq_x, acq_y, f) ==
    LET n == Min2(Len(acq_x.data), Len(acq_y.data)) IN
    [acq_y EXCEPT !.data = [s \in 1..Len(acq_y.data) |->
        IF s <= n THEN UnaryFn(f, acq_x.data[s]) ELSE acq_y.data[s]]]

(***************************************************************************)
(* Elementwise algebra: the container loops.  cs maps container names to   *)
(* containers, z names the receiver (this), x, y, a, b the operands; the   *)
(* same container may be named twice.  A loop returns the containers it    *)
(* leaves and "ok", or "throw" when an access was out of range.            *)
(***************************************************************************)
\* the store at the end of an iteration: append to a receiver that was empty
\* at the start of the call, else overwrite logical element k
Store(cs, z, isempty, k, ay) ==
    IF isempty THEN [cs EXCEPT ![z] = append_acquisition(@, ay)]
    ELSE [cs EXCEPT ![z] = set_acquisition(@, k, ay).c]

\* the test of the receiver's element k, made only if the receiver was not
\* empty: "throw", "skip" (to be ignored) or "go"
Receiver(cs, z, isempty, k) ==
    IF isempty THEN "go"
    ELSE LET g == get_acquisition(cs[z], k) IN
         IF g.out = "throw" THEN "throw" ELSE IF g.ret = 0 THEN "skip" ELSE "go"

RECURSIVE axpby_loop(_, _, _, _, _, _, _, _, _, _, _, _)
axpby_loop(cs, z, a, x, b, y, isempty, nx, ny, ix, iy, k) ==
    IF ~(ix < nx /\ iy < ny) THEN [out |-> "ok", cs |-> cs]
    ELSE LET gx == get_acquisition(cs[x], ix) IN
      IF gx.out = "throw" THEN [out |-> "throw", cs |-> cs]
      ELSE IF gx.ret = 0
      THEN axpby_loop(cs, z, a, x, b, y, isempty, nx, ny, ix + 1, iy, k)
      ELSE LET gy == get_acquisition(cs[y], iy) IN
        IF gy.out = "throw" THEN [out |-> "throw", cs |-> cs]
        ELSE IF gy.ret = 0
        THEN axpby_loop(cs, z, a, x, b, y, isempty, nx, ny, ix, iy + 1, k)
        ELSE LET t == Receiver(cs, z, isempty, k) IN
          IF t = "throw" THEN [out |-> "throw", cs |-> cs]
          ELSE IF t = "skip"
          THEN axpby_loop(cs, z, a, x, b, y, isempty, nx, ny, ix, iy, k + 1)
          ELSE axpby_loop(Store(cs, z, isempty, k, axpby_acq(a, gx.acq, b, gy.acq)),
                          z, a, x, b, y, isempty, nx, ny, ix + 1, iy + 1, k + 1)

RECURSIVE binary_op_loop(_, _, _, _, _, _, _, _, _, _, _)
binary_op_loop(cs, z, x, y, f, isempty, nx, ny, ix, iy, k) ==
    IF ~(ix < nx /\ iy < ny) THEN [out |-> "ok", cs |-> cs]
    ELSE LET gx == get_acquisition(cs[x], ix) IN
      IF gx.out = "throw" THEN [out |-> "throw", cs |-> cs]
      ELSE IF gx.ret = 0
      THEN binary_op_loop(cs, z, x, y, f, isempty, nx, ny, ix + 1, iy, k)
      ELSE LET gy == get_acquisition(cs[y], iy) IN
        IF gy.out = "throw" THEN [out |-> "throw", cs |-> cs]
        ELSE IF gy.ret = 0
        THEN binary_op_loop(cs, z, x, y, f, isempty, nx, ny, ix, iy + 1, k)
        ELSE LET t == Receiver(cs, z, isempty, k) IN
          IF t = "throw" THEN [out |-> "throw", cs |-> cs]
          ELSE IF t = "skip"
          THEN binary_op_loop(cs, z, x, y, f, isempty, nx, ny, ix, iy, k + 1)
          ELSE binary_op_loop(Store(cs, z, isempty, k, binary_op_acq(gx.acq, gy.acq, f)),
                              z, x, y, f, isempty, nx, ny, ix + 1, iy + 1, k + 1)

\* o names the operand containers, n holds the sizes read before the loop
RECURSIVE xapyb_loop(_, _, _, _, _, _, _, _, _, _, _)
xapyb_loop(cs, z, o, isempty, n, ix, iy, ia, ib, k, junk) ==
    IF ~(ix < n.x /\ iy < n.y /\ ia < n.a /\ ib < n.b)
    THEN [out |-> "ok", cs |-> cs]
    ELSE LET gx == get_acquisition(cs[o.x], ix) IN
      IF gx.out = "throw" THEN [out |-> "throw", cs |-> cs]
      ELSE IF gx.ret = 0
      THEN xapyb_loop(cs, z, o, isempty, n, ix + 1, iy, ia, ib, k, junk)
      ELSE LET gy == get_acquisition(cs[o.y], iy) IN
        IF gy.out = "throw" THEN [out |-> "throw", cs |-> cs]
        ELSE IF gy.ret = 0
        THEN xapyb_loop(cs, z, o, isempty, n, ix, iy + 1, ia, ib, k, junk)
        ELSE LET ga == get_acquisition(cs[o.a], ia) IN
          IF ga.out = "throw" THEN [out |-> "throw", cs |-> cs]
          ELSE IF ga.ret = 0
          THEN xapyb_loop(cs, z, o, isempty, n, ix, iy, ia + 1, ib, k, junk)
          ELSE LET gb == get_acquisition(cs[o.b], ib) IN
            IF gb.out = "throw" THEN [out |-> "throw", cs |-> cs]
            ELSE IF gb.ret = 0
            THEN xapyb_loop(cs, z, o, isempty, n, ix, iy, ia, ib + 1, k, junk)
            ELSE LET t == Receiver(cs, z, isempty, k) IN
              IF t = "throw" THEN [out |-> "throw", cs |-> cs]
              ELSE IF t = "skip"
              THEN xapyb_loop(cs, z, o, isempty, n, ix, iy, ia, ib, k + 1, junk)
              ELSE xapyb_loop(
                     Store(cs, z, isempty, k,
                           xapyb_acq(gx.acq, ga.acq, gy.acq, gb.acq, junk)),
                     z, o, isempty, n, ix + 1, iy + 1, ia + 1, ib + 1, k + 1,
                     junk)

RECURSIVE xapyb_b_loop(_, _, _, _, _, _, _, _, _, _)
xapyb_b_loop(cs, z, o, a, isempty, n, ix, iy, ib, k) ==
    IF ~(ix < n.x /\ iy < n.y /\ ib < n.b) THEN [out |-> "ok", cs |-> cs]
    ELSE LET gx == get_acquisition(cs[o.x], ix) IN
      IF gx.out = "throw" THEN [out |-> "throw", cs |-> cs]
      ELSE IF gx.ret = 0
      THEN xapyb_b_loop(cs, z, o, a, isempty, n, ix + 1, iy, ib, k)
      ELSE LET gy == get_acquisition(cs[o.y], iy) IN
        IF gy.out = "throw" THEN [out |-> "throw", cs |-> cs]
        ELSE IF gy.ret = 0
        THEN xapyb_b_loop(cs, z, o, a, isempty, n, ix, iy + 1, ib, k)
        ELSE LET gb == get_acquisition(cs[o.b], ib) IN
          IF gb.out = "throw" THEN [out |-> "throw", cs |-> cs]
          ELSE IF gb.ret = 0
          THEN xapyb_b_loop(cs, z, o, a, isempty, n, ix, iy, ib + 1, k)
          ELSE LET t == Receiver(cs, z, isempty, k) IN
            IF t = "throw" THEN [out |-> "throw", cs |-> cs]
            ELSE IF t = "skip"
            THEN xapyb_b_loop(cs, z, o, a, isempty, n, ix, iy, ib, k + 1)
            ELSE xapyb_b_loop(
                   Store(cs, z, isempty, k,
                         xapyb_acq_b(gx.acq, a, gy.acq, gb.acq)),
                   z, o, a, isempty, n, ix + 1, iy + 1, ib + 1, k + 1)

RECURSIVE semibinary_op_loop(_, _, _, _, _, _, _, _, _)
semibinary_op_loop(cs, z, x, y, f, isempty, nx, ix, k) ==
    IF ~(ix < nx) THEN [out |-> "ok", cs |-> cs]
    ELSE LET gx == get_acquisition(cs[x], ix) IN
      IF gx.out = "throw" THEN [out |-> "throw", cs |-> cs]
      ELSE IF gx.ret = 0
      THEN semibinary_op_loop(cs, z, x, y, f, isempty, nx, ix + 1, k)
      ELSE LET t == Receiver(cs, z, isempty, k) IN
        IF t = "throw" THEN [out |-> "throw", cs |-> cs]
        ELSE IF t = "skip"
        THEN semibinary_op_loop(cs, z, x, y, f, isempty, nx, ix, k + 1)
        ELSE semibinary_op_loop(
               Store(cs, z, isempty, k, semibinary_op_acq(gx.acq, gx.acq, y, f)),
               z, x, y, f, isempty, nx, ix + 1, k + 1)

RECURSIVE unary_op_loop(_, _, _, _, _, _, _, _)
unary_op_loop(cs, z, x, f, isempty, nx, ix, k) ==
    IF ~(ix < nx) THEN [out |-> "ok", cs |-> cs]
    ELSE LET gx == get_acquisition(cs[x], ix) IN
      IF gx.out = "throw" THEN [out |-> "throw", cs |-> cs]
      ELSE IF gx.ret = 0 THEN unary_op_loop(cs, z, x, f, isempty, nx, ix + 1, k)
      ELSE LET t == Receiver(cs, z, isempty, k) IN
        IF t = "throw" THEN [out |-> "throw", cs |-> cs]
        ELSE IF t = "skip" THEN unary_op_loop(cs, z, x, f, isempty, nx, ix, k + 1)
        ELSE unary_op_loop(Store(cs, z, isempty, k, unary_op_acq(gx.acq, gx.acq, f)),
                           z, x, f, isempty, nx, ix + 1, k + 1)

\* the end of an algebra write without the rebuild of the subsets
AlgebraEnd_keeps_subsets(r, z, ub) ==
    IF r.out # "ok" THEN r
    ELSE [out |-> "ok", cs |-> [r.cs EXCEPT ![z].sorted_ = TRUE]]

\* the end of every algebra write: set_sorted(true); organise_kspace()
AlgebraEnd(r, z, ub) ==
    IF r.out # "ok" THEN r
    ELSE CHOOSE res \in {[out |-> o.out, cs |-> [r.cs EXCEPT ![z] = o.c]] :
                          o \in {organise_kspace([r.cs[z] EXCEPT !.sorted_ = TRUE], ub)}} : TRUE

\* MRAcquisitionData::axpby(ptr_a, a_x, ptr_b, a_y)
axpby(cs, z, a, x, b, y, ub) ==
    IF ~cs[x].sorted_ \/ ~cs[y].sorted_ THEN [out |-> "throw", cs |-> cs]
    ELSE AlgebraEnd(axpby_loop(cs, z, a, x, b, y, number(cs[z]) < 1,
                               number(cs[x]), number(cs[y]), 0, 0, 0), z, ub)

\* MRAcquisitionData::xapyb(a_x, a_a, a_y, a_b)
xapyb(cs, z, x, a, y, b, ub, junk) ==
    IF ~cs[x].sorted_ \/ ~cs[y].sorted_ \/ ~cs[a].sorted_ \/ ~cs[b].sorted_
    THEN [out |-> "throw", cs |-> cs]
    ELSE LET o == [x |-> x, y |-> y, a |-> a, b |-> b] IN
         AlgebraEnd(xapyb_loop(cs, z, o, number(cs[z]) < 1,
                               [r \in DOMAIN o |-> number(cs[o[r]])],
                               0, 0, 0, 0, 0, junk), z, ub)

\* MRAcquisitionData::xapyb(a_x, ptr_a, a_y, ptr_b): forwards to axpby
xapyb_ab(cs, z, x, a, y, b, ub) == axpby(cs, z, a, x, b, y, ub)

\* MRAcquisitionData::xapyb(a_x, ptr_a, a_y, a_b)
xapyb_b(cs, z, x, a, y, b, ub) ==
    IF ~cs[x].sorted_ \/ ~cs[y].sorted_ \/ ~cs[b].sorted_
    THEN [out |-> "throw", cs |-> cs]
    ELSE LET o == [x |-> x, y |-> y, b |-> b] IN
         AlgebraEnd(xapyb_b_loop(cs, z, o, a, number(cs[z]) < 1,
                                 [r \in DOMAIN o |-> number(cs[o[r]])],
                                 0, 0, 0, 0), z, ub)

\* binary_op with the test of the first operand only
binary_op_tests_x_only(cs, z, x, y, f, ub) ==
    IF ~cs[x].sorted_ THEN [out |-> "throw", cs |-> cs]
    ELSE AlgebraEnd(binary_op_loop(cs, z, x, y, f, number(cs[z]) < 1,
                                   number(cs[x]), number(cs[y]), 0, 0, 0), z, ub)

\* MRAcquisitionData::binary_op(a_x, a_y, f)
binary_op(cs, z, x, y, f, ub) ==
    IF ~cs[x].sorted_ \/ ~cs[y].sorted_ THEN [out |-> "throw", cs |-> cs]
    ELSE AlgebraEnd(binary_op_loop(cs, z, x, y, f, number(cs[z]) < 1,
                                   number(cs[x]), number(cs[y]), 0, 0, 0), z, ub)

\* MRAcquisitionData::semibinary_op(a_x, y, f)
semibinary_op(cs, z, x, y, f, ub) ==
    IF ~cs[x].sorted_ THEN [out |-> "throw", cs |-> cs]
    ELSE AlgebraEnd(semibinary_op_loop(cs, z, x, y, f, number(cs[z]) < 1,
                                       number(cs[x]), 0, 0), z, ub)

\* MRAcquisitionData::unary_op(a_x, f)
unary_op(cs, z, x, f, ub) ==
    IF ~cs[x].sorted_ THEN [out |-> "throw", cs |-> cs]
    ELSE AlgebraEnd(unary_op_loop(cs, z, x, f, number(cs[z]) < 1,
                                  number(cs[x]), 0, 0), z, ub)

(***************************************************************************)
(* Reductions: dot, sum, max and norm.                                     *)
(***************************************************************************)
\* the sum of the values v[1], ..., v[n]
RECURSIVE CSum(_, _)
CSum(v, n) == IF n = 0 THEN Complex(0, 0) ELSE CAdd(CSum(v, n - 1), v[n])

\* MRAcquisitionData::dot(acq_a, acq_b): the sum of conj(b[s]) * a[s]
dot_acq(acq_a, acq_b) ==
    LET n == Min2(Len(acq_a.data), Len(acq_b.data)) IN
    CSum([s \in 1..n |-> CMul(Conj(acq_b.data[s]), acq_a.data[s])], n)

\* MRAcquisitionData::norm(acq_a): the square root, rounded down, of the sum
\* of the squared moduli
norm_acq(acq_a) ==
    LET n == Len(acq_a.data) IN
    Isqrt(Re(CSum([s \in 1..n |-> CMul(Conj(acq_a.data[s]), acq_a.data[s])],
                  n)))

\* MRAcquisitionData::sum(acq_a)
sum_acq(acq_a) == CSum(acq_a.data, Len(acq_a.data))

\* MRAcquisitionData::max(acq_a): the value of greatest real part, from 0
RECURSIVE max_acq_loop(_, _, _)
max_acq_loop(acq_a, s, z) ==
    IF s > Len(acq_a.data) THEN z
    ELSE max_acq_loop(acq_a, s + 1,
                      IF Re(acq_a.data[s]) > Re(z) THEN acq_a.data[s] ELSE z)

max_acq(acq_a) == max_acq_loop(acq_a, 1, Complex(0, 0))

RECURSIVE dot_loop(_, _, _, _, _)
dot_loop(c, other, i, j, z) ==
    IF ~(i < number(c) /\ j < number(other)) THEN [out |-> "ok", ret |-> z]
    ELSE LET a == get_acquisition(c, i) IN
      IF a.out = "throw" THEN [out |-> "throw", ret |-> z]
      ELSE IF a.ret = 0 THEN dot_loop(c, other, i + 1, j, z)
      ELSE LET b == get_acquisition(other, j) IN
        IF b.out = "throw" THEN [out |-> "throw", ret |-> z]
        ELSE IF b.ret = 0 THEN dot_loop(c, other, i, j + 1, z)
        ELSE dot_loop(c, other, i + 1, j + 1, CAdd(z, dot_acq(a.acq, b.acq)))

\* MRAcquisitionData::dot(dc, ptr)
dot(c, other) == dot_loop(c, other, 0, 0, Complex(0, 0))

RECURSIVE sum_loop(_, _, _)
sum_loop(c, i, z) ==
    IF i >= number(c) THEN [out |-> "ok", ret |-> z]
    ELSE LET a == get_acquisition(c, i) IN
      IF a.out = "throw" THEN [out |-> "throw", ret |-> z]
      ELSE IF a.ret = 0 THEN sum_loop(c, i + 1, z)
      ELSE sum_loop(c, i + 1, CAdd(z, sum_acq(a.acq)))

\* MRAcquisitionData::sum(ptr)
sum(c) == sum_loop(c, 0, Complex(0, 0))

RECURSIVE max_loop(_, _, _)
max_loop(c, i, z) ==
    IF i >= number(c) THEN [out |-> "ok", ret |-> z]
    ELSE LET a == get_acquisition(c, i) IN
      IF a.out = "throw" THEN [out |-> "throw", ret |-> z]
      ELSE IF a.ret = 0 THEN max_loop(c, i + 1, z)
      ELSE LET zi == max_acq(a.acq) IN
           max_loop(c, i + 1, IF Re(zi) > Re(z) THEN zi ELSE z)

\* MRAcquisitionData::max(ptr)
max(c) == max_loop(c, 0, Complex(0, 0))

RECURSIVE norm_loop(_, _, _)
norm_loop(c, i, r) ==
    IF i >= number(c) THEN [out |-> "ok", ret |-> Isqrt(r)]
    ELSE LET a == get_acquisition(c, i) IN
      IF a.out = "throw" THEN [out |-> "throw", ret |-> 0]
      ELSE IF a.ret = 0 THEN norm_loop(c, i + 1, r)
      ELSE LET n == norm_acq(a.acq) IN norm_loop(c, i + 1, r + n * n)

\* MRAcquisitionData::norm()
norm(c) == norm_loop(c, 0, 0)

(***************************************************************************)
(* Copies between containers and in-place writes.                          *)
(***************************************************************************)
RECURSIVE get_subset_loop(_, _, _, _)
get_subset_loop(x, subset, subset_idx, i) ==
    IF i >= Len(subset_idx) THEN [out |-> "ok", subset |-> subset]
    ELSE LET g == get_acquisition(x, subset_idx[i + 1]) IN
         IF g.out = "throw" THEN [out |-> "throw", subset |-> subset]
         ELSE get_subset_loop(x, append_acquisition(subset, g.acq),
                              subset_idx, i + 1)

\* MRAcquisitionData::get_subset (x is this): the header of subset is set
\* before the test for an empty subset
get_subset(x, subset, subset_idx) ==
    LET s0 == [subset EXCEPT !.acqs_info_ = x.acqs_info_] IN
    IF number(s0) > 0 THEN [out |-> "throw", subset |-> s0]
    ELSE get_subset_loop(x, s0, subset_idx, 0)

RECURSIVE set_subset_loop(_, _, _, _)
set_subset_loop(c, subset, subset_idx, i) ==
    IF i >= Len(subset_idx) THEN [out |-> "ok", c |-> c]
    ELSE LET g == get_acquisition(subset, i) IN
         IF g.out = "throw" THEN [out |-> "throw", c |-> c]
         ELSE LET w == set_acquisition(c, subset_idx[i + 1], g.acq) IN
              IF w.out = "throw" THEN [out |-> "throw", c |-> c]
              ELSE set_subset_loop(w.c, subset, subset_idx, i + 1)

\* MRAcquisitionData::set_subset (c is this)
set_subset(c, subset, subset_idx) ==
    IF number(subset) # Len(subset_idx) THEN [out |-> "throw", c |-> c]
    ELSE set_subset_loop(c, subset, subset_idx, 0)

RECURSIVE clone_loop(_, _, _)
clone_loop(c, ptr_ad, i) ==
    IF i >= number(c) THEN [out |-> "ok", c |-> ptr_ad]
    ELSE LET g == get_acquisition(c, i) IN
         IF g.out = "throw" THEN [out |-> "throw", c |-> ptr_ad]
         ELSE clone_loop(c, append_acquisition(ptr_ad, g.acq), i + 1)

\* AcquisitionsVector::clone_impl: a new container with copies of the
\* logical elements, the sorted flag and, when sorted, its own subsets
clone_impl(c, ub) ==
    LET r == clone_loop(c, AcquisitionsVector(c.acqs_info_), 0) IN
    IF r.out = "throw" THEN r
    ELSE LET ad == [r.c EXCEPT !.sorted_ = c.sorted_] IN
         IF c.sorted_ THEN organise_kspace(ad, ub)
         ELSE [out |-> "ok", c |-> ad]

RECURSIVE conjugate_loop(_, _)
conjugate_loop(c, a) ==
    IF a >= number(c) THEN [out |-> "ok", c |-> c]
    ELSE LET r == index(c, a) IN
         IF r.out = "throw" THEN [out |-> "throw", c |-> c]
         ELSE conjugate_loop(
                [c EXCEPT !.acqs_[r.ind + 1].data =
                    [s \in 1..Len(@) |-> Conj(@[s])]], a + 1)

\* AcquisitionsVector::conjugate_impl
conjugate_impl(c) == conjugate_loop(c, 0)

RECURSIVE set_data_loop(_, _, _, _, _)
set_data_loop(c, z, all, a, i) ==
    IF a >= number(c) THEN [out |-> "ok", c |-> c]
    ELSE LET r == index(c, a) IN
         IF r.out = "throw" THEN [out |-> "throw", c |-> c]
         ELSE LET acq == c.acqs_[r.ind + 1]
                  ns == Len(acq.data)
              IN IF all = 0 /\ TO_BE_IGNORED(acq)
                 THEN set_data_loop(c, z, all, a + 1, i)
                 ELSE set_data_loop(
                        [c EXCEPT !.acqs_[r.ind + 1].data =
                            [s \in 1..ns |-> z[i + s]]],
                        z, all, a + 1, i + ns)

\* AcquisitionsVector::set_data(z, all): z is the caller's array, one value
\* for every sample that is written
set_data(c, z, all) == set_data_loop(c, z, all, 0, 0)

(***************************************************************************)
(* File I/O.  A file is a record: whether it exists, the header and the    *)
(* acquisitions written to it.  mutex is the process-wide I/O lock of      *)
(* class Mutex, "free" or "held"; lock() on a held lock never returns and  *)
(* the call ends "blocked".                                                *)
(***************************************************************************)
\* a file name that can be opened for writing, and one in a directory that
\* does not exist
Filenames == {"acq.h5", "nodir/acq.h5"}

Openable(filename) == filename = "acq.h5"

RECURSIVE write_loop(_, _, _)
write_loop(c, f, i) ==
    IF i >= number(c) THEN [out |-> "ok", file |-> f, mutex |-> "free"]
    ELSE LET g == get_acquisition(c, i) IN
         IF g.out = "throw" THEN [out |-> "throw", file |-> f, mutex |-> "free"]
         ELSE write_loop(c, [f EXCEPT !.acqs = Append(@, g.acq)], i + 1)

\* MRAcquisitionData::write: an old file is removed, the header is written
\* under the lock, then the acquisitions in logical order, each under the
\* lock.  The Dataset constructor throws when the file cannot be created.
write(c, f, filename, mtx) ==
    IF mtx = "held" THEN [out |-> "blocked", file |-> f, mutex |-> mtx]
    ELSE IF ~Openable(filename)
         THEN [out |-> "throw", file |-> f, mutex |-> "held"]
         ELSE write_loop(c, [exists |-> TRUE, hdr |-> c.acqs_info_,
                             acqs |-> <<>>], 0)

RECURSIVE read_loop(_, _, _, _)
read_loop(c, f, all, i_acqu) ==
    IF i_acqu >= Len(f.acqs) THEN c
    ELSE LET acq == f.acqs[i_acqu + 1] IN
         read_loop(IF all # 0 \/ ~TO_BE_IGNORED(acq)
                   THEN append_acquisition(c, acq) ELSE c,
                   f, all, i_acqu + 1)

\* what i_acqu % (num_acquis / 10) does when num_acquis / 10 is 0: the
\* process is killed, or the loop goes on
DivisionByZero == {"crash", "goes on"}

\* MRAcquisitionData::read (verbose is true).  The Dataset constructor throws
\* std::runtime_error when the file cannot be opened; the handler prints and
\* rethrows.  ub is the outcome of organise_kspace on a header without
\* encoding, dz the outcome of a division by zero.
read(c, f, filename, all, mtx, dz, ub) ==
    IF mtx = "held" THEN [out |-> "blocked", c |-> c, mutex |-> mtx]
    ELSE IF ~Openable(filename) \/ ~f.exists
         THEN [out |-> "throw", c |-> c, mutex |-> "held"]
         ELSE LET c1 == [c EXCEPT !.acqs_info_ = f.hdr]
                  num_acquis == Len(f.acqs)
              IN IF num_acquis > 0 /\ num_acquis \div 10 = 0 /\ dz = "crash"
                 THEN [out |-> "crash", c |-> c1, mutex |-> "free"]
                 ELSE LET r == sort_by_time(read_loop(c1, f, all, 0), ub) IN
                      [out |-> r.out, c |-> r.c, mutex |-> "free"]

(***************************************************************************)
(* Inputs.                                                                 *)
(***************************************************************************)
\* the acquisitions appended: time stamps in each of the orders <, =, >, with
\* equal and with different (slice, contrast)
Acquisitions ==
    {Acquisition(0, {}, 1, 0, <<Complex(1, 0)>>),
     Acquisition(1, {}, 0, 1, <<Complex(1, 0)>>),
     Acquisition(0, {}, 0, 1, <<Complex(1, 0)>>)}

SliceLimits == EncodingLimits(<<>>, <<0, 1>>, <<>>, <<>>, <<>>, <<>>)
SliceContrastLimits == EncodingLimits(<<>>, <<0, 1>>, <<0, 1>>, <<>>, <<>>, <<>>)
ContrastFromOneLimits == EncodingLimits(<<>>, <<0, 1>>, <<1, 1>>, <<>>, <<>>, <<>>)

Headers ==
    {AcquisitionsInfo, Header(1, SliceContrastLimits),
     Header(1, ContrastFromOneLimits), Header(2, SliceLimits)}

\* what reading encoding_vector[0] of an empty vector can do: kill the
\* process, or yield arbitrary limits
NoUB == [kind |-> "none", lims |-> NoLimits]
UBOutcomes(c) ==
    IF c.acqs_info_.nenc = 0
    THEN {[kind |-> "crash", lims |-> NoLimits],
          [kind |-> "garbage", lims |-> SliceLimits]}
    ELSE {NoUB}

(***************************************************************************)
(* The state machine.  last records the call made last; fresh is the set   *)
(* of containers that were constructed and appended to and nothing else.   *)
(***************************************************************************)
\* the arguments of an algebra call: the names of the operand containers in the
\* order x, y, a, b, the scalars, and the scalar function
Args(opnds, sc, f) == [opnds |-> opnds, sc |-> sc, f |-> f]

Call(op, recv, out, ret) ==
    [op |-> op, recv |-> recv, out |-> out, ret |-> ret,
     args |-> Args(<<>>, <<>>, "")]

AlgebraCall(op, recv, out, args) ==
    [op |-> op, recv |-> recv, out |-> out, ret |-> <<>>, args |-> args]

Running == last.out # "crash"

\* no acquisition cell is modelled; no file was written
NoHeap == <<>>
NoFile == [exists |-> FALSE, hdr |-> AcquisitionsInfo, acqs |-> <<>>]

Init ==
    /\ \E h \in Headers : cont = [n \in {"x"} |-> AcquisitionsVector(h)]
    /\ last = Call("new", "x", "ok", <<>>)
    /\ fresh = {"x"}
    /\ heap = NoHeap /\ file = NoFile /\ mutex = "free"

AppendAcquisition(c) ==
    /\ Running
    /\ number(cont[c]) < MaxN
    /\ \E acq \in Acquisitions :
         /\ cont' = [cont EXCEPT ![c] = append_acquisition(@, acq)]
         /\ last' = Call("append_acquisition", c, "ok", <<>>)
    /\ UNCHANGED <<fresh, heap, file, mutex>>

\* sort() only forwards to sort_by_time(): both are recorded as sort_by_time
Sort(c) ==
    /\ Running
    /\ \E ub \in UBOutcomes(cont[c]) :
         LET r == sort(cont[c], ub) IN
         /\ cont' = [cont EXCEPT ![c] = r.c]
         /\ last' = Call("sort_by_time", c, r.out, <<>>)
    /\ fresh' = fresh \ {c}
    /\ UNCHANGED <<heap, file, mutex>>

SortByTime(c) ==
    /\ Running
    /\ \E ub \in UBOutcomes(cont[c]) :
         LET r == sort_by_time(cont[c], ub) IN
         /\ cont' = [cont EXCEPT ![c] = r.c]
         /\ last' = Call("sort_by_time", c, r.out, <<>>)
    /\ fresh' = fresh \ {c}
    /\ UNCHANGED <<heap, file, mutex>>

OrganiseKspace(c) ==
    /\ Running
    /\ \E ub \in UBOutcomes(cont[c]) :
         LET r == organise_kspace(cont[c], ub) IN
         /\ cont' = [cont EXCEPT ![c] = r.c]
         /\ last' = Call("organise_kspace", c, r.out, <<>>)
    /\ fresh' = fresh \ {c}
    /\ UNCHANGED <<heap, file, mutex>>

GetKspaceOrder(c) ==
    /\ Running
    /\ LET r == get_kspace_order(cont[c]) IN
         last' = Call("get_kspace_order", c, r.out, r.ret)
    /\ UNCHANGED <<cont, fresh, heap, file, mutex>>

Empty(c) ==
    /\ Running
    /\ cont' = [cont EXCEPT ![c] = empty(@)]
    /\ last' = Call("empty", c, "ok", <<>>)
    /\ fresh' = fresh \ {c}
    /\ UNCHANGED <<heap, file, mutex>>

UnaryOp(z, x, f) ==
    /\ Running
    /\ \E ub \in UBOutcomes(cont[z]) :
         LET r == unary_op(cont, z, x, f, ub) IN
         /\ cont' = r.cs
         /\ last' = AlgebraCall("unary_op", z, r.out, Args(<<x>>, <<>>, f))
    /\ fresh' = fresh \ {z}
    /\ UNCHANGED <<heap, file, mutex>>

Next ==
    \/ AppendAcquisition("x")
    \/ Sort("x")
    \/ SortByTime("x")
    \/ OrganiseKspace("x")
    \/ GetKspaceOrder("x")
    \/ Empty("x")
    \/ UnaryOp("x", "x", "abs")

Spec == Init /\ [][Next]_vars

(***************************************************************************)
(* The algebra on three containers: a behaviour builds the operands x, y   *)
(* by append_acquisition and sort_by_time and the receiver z by            *)
(* append_acquisition, and ends with one algebra call on z.                *)
(***************************************************************************)
AlgebraCalls ==
    {"axpby", "xapyb", "xapyb_ab", "xapyb_b", "binary_op", "semibinary_op",
     "unary_op"}

Building == Running /\ last.op \notin AlgebraCalls

\* the acquisitions that may be appended to container c at position pos: the
\* sample value tells the container and the position, the time stamps of x
\* fall, x holds noise acquisitions anywhere and z in its first place
OperandAcquisitions(c, pos) ==
    CASE c = "x" ->
           {Acquisition(MaxOperand - pos, {}, pos % 2, 0, <<Complex(10 + pos, 0)>>),
            Acquisition(0, {ISMRMRD_ACQ_IS_NOISE_MEASUREMENT}, 0, 0, <<Complex(10 + pos, 0)>>)}
      [] c = "y" -> {Acquisition(0, {}, (pos + 1) % 2, 0, <<Complex(20 + pos, 0)>>)}
      [] c = "z" ->
           {Acquisition(0, {}, 0, 0, <<Complex(30 + pos, 0)>>)} \cup
           (IF pos = 0
            THEN {Acquisition(0, {ISMRMRD_ACQ_IS_NOISE_MEASUREMENT}, 0, 0, <<Complex(30, 0)>>)}
            ELSE {})

\* the scalars of axpby and xapyb: b zero and b not zero
Scalars ==
    {<<Complex(2, 0), Complex(3, 0)>>, <<Complex(2, 0), Complex(0, 0)>>}

\* what a read past the end of a sample array may yield
JunkValues == {Complex(0, 0), Complex(7, 0)}

InitAlg ==
    /\ cont = [n \in {"x", "y", "z"} |-> AcquisitionsVector(Header(1, SliceLimits))]
    /\ last = Call("new", "z", "ok", <<>>)
    /\ fresh = {"x", "y", "z"}
    /\ heap = NoHeap /\ file = NoFile /\ mutex = "free"

BuildAppend(c) ==
    /\ Building
    /\ number(cont[c]) < MaxOperand
    /\ \E acq \in OperandAcquisitions(c, number(cont[c])) :
         /\ cont' = [cont EXCEPT ![c] = append_acquisition(@, acq)]
         /\ last' = Call("append_acquisition", c, "ok", <<>>)
    /\ UNCHANGED <<fresh, heap, file, mutex>>

Axpby(z, x, y) ==
    /\ Running
    /\ \E ub \in UBOutcomes(cont[z]), s \in Scalars :
         LET r == axpby(cont, z, s[1], x, s[2], y, ub) IN
         /\ cont' = r.cs
         /\ last' = AlgebraCall("axpby", z, r.out, Args(<<x, y>>, s, ""))
    /\ fresh' = fresh \ {z}
    /\ UNCHANGED <<heap, file, mutex>>

Xapyb(z, x, a, y, b) ==
    /\ Running
    /\ \E ub \in UBOutcomes(cont[z]), junk \in JunkValues :
         LET r == xapyb(cont, z, x, a, y, b, ub, junk) IN
         /\ cont' = r.cs
         /\ last' = AlgebraCall("xapyb", z, r.out, Args(<<x, y, a, b>>, <<>>, ""))
    /\ fresh' = fresh \ {z}
    /\ UNCHANGED <<heap, file, mutex>>

XapybAB(z, x, y) ==
    /\ Running
    /\ \E ub \in UBOutcomes(cont[z]), s \in Scalars :
         LET r == xapyb_ab(cont, z, x, s[1], y, s[2], ub) IN
         /\ cont' = r.cs
         /\ last' = AlgebraCall("xapyb_ab", z, r.out, Args(<<x, y>>, s, ""))
    /\ fresh' = fresh \ {z}
    /\ UNCHANGED <<heap, file, mutex>>

XapybB(z, x, y, b) ==
    /\ Running
    /\ \E ub \in UBOutcomes(cont[z]), s \in Scalars :
         LET r == xapyb_b(cont, z, x, s[1], y, b, ub) IN
         /\ cont' = r.cs
         /\ last' = AlgebraCall("xapyb_b", z, r.out, Args(<<x, y, b>>, <<s[1]>>, ""))
    /\ fresh' = fresh \ {z}
    /\ UNCHANGED <<heap, file, mutex>>

BinaryOp(z, x, y) ==
    /\ Running
    /\ \E ub \in UBOutcomes(cont[z]), f \in {"multiply", "maximum"} :
         LET r == binary_op(cont, z, x, y, f, ub) IN
         /\ cont' = r.cs
         /\ last' = AlgebraCall("binary_op", z, r.out, Args(<<x, y>>, <<>>, f))
    /\ fresh' = fresh \ {z}
    /\ UNCHANGED <<heap, file, mutex>>

SemibinaryOp(z, x) ==
    /\ Running
    /\ \E ub \in UBOutcomes(cont[z]), f \in {"multiply", "add"} :
         LET r == semibinary_op(cont, z, x, Complex(2, 0), f, ub) IN
         /\ cont' = r.cs
         /\ last' = AlgebraCall("semibinary_op", z, r.out, Args(<<x>>, <<Complex(2, 0)>>, f))
    /\ fresh' = fresh \ {z}
    /\ UNCHANGED <<heap, file, mutex>>

NextAlg ==
    \/ \E c \in {"x", "y", "z"} : BuildAppend(c)
    \/ \E c \in {"x", "y"} : Building /\ SortByTime(c)
    \/ Building /\ Axpby("z", "x", "y")
    \/ Building /\ Xapyb("z", "x", "x", "y", "y")
    \/ Building /\ XapybAB("z", "x", "y")
    \/ Building /\ XapybB("z", "x", "y", "x")
    \/ Building /\ BinaryOp("z", "x", "y")
    \/ Building /\ BinaryOp("z", "y", "x")
    \/ Building /\ SemibinaryOp("z", "x")
    \/ Building /\ UnaryOp("z", "x", "abs")

SpecAlg == InitAlg /\ [][NextAlg]_vars

(***************************************************************************)
(* Containers as vectors of shared pointers.  In SpecMem the vector acqs_   *)
(* of a container holds the addresses of its acquisitions and heap maps    *)
(* every address to the acquisition stored there; address Caller holds the *)
(* acquisition object of the calling code.  An operation reads the         *)
(* containers through Deref and its result is written back by Commit: an   *)
(* element that was there before the call is overwritten in place (as     *)
(* set_acquisition assigns to the object acqs_[ind] points to), an         *)
(* appended element gets a cell of its own (new ISMRMRD::Acquisition).     *)
(***************************************************************************)
Caller == 0

Cells(c) == {c.acqs_[i] : i \in 1..Len(c.acqs_)}

\* the objects the pointers of acqs_ point to
Deref(h, c) == [c EXCEPT !.acqs_ = [i \in 1..Len(c.acqs_) |-> h[c.acqs_[i]]]]

View(h, cs) == [c \in DOMAIN cs |-> Deref(h, cs[c])]

\* new ISMRMRD::Acquisition: the lowest address that is not in use
NewCell(h) ==
    CHOOSE a \in 1..(Cardinality(DOMAIN h) + 1) :
        a \notin DOMAIN h /\ \A b \in 1..(a - 1) : b \in DOMAIN h

\* write the container v, computed from Deref(h, p), back to memory
RECURSIVE Commit(_, _, _)
Commit(h, p, v) ==
    IF Len(p.acqs_) < Len(v.acqs_)
    THEN LET a == NewCell(h) IN
         Commit((a :> v.acqs_[Len(p.acqs_) + 1]) @@ h,
                [p EXCEPT !.acqs_ = Append(@, a)], v)
    ELSE LET n == Len(v.acqs_)
             slot(a) == CHOOSE i \in 1..n : p.acqs_[i] = a
         IN [h |-> [a \in DOMAIN h |->
                      IF \E i \in 1..n : p.acqs_[i] = a
                      THEN v.acqs_[slot(a)] ELSE h[a]],
             c |-> [v EXCEPT !.acqs_ = SubSeq(p.acqs_, 1, n)]]

\* shared_ptr: a cell that no container points to any more is deleted
Release(h, cs) ==
    [a \in ({Caller} \cup UNION {Cells(cs[c]) : c \in DOMAIN cs}) \cap DOMAIN h
       |-> h[a]]

\* a clone whose vector holds the pointers of the original
clone_shares_cells(h, c, ub) ==
    LET r == clone_impl(Deref(h, c), ub) IN
    IF r.out # "ok" THEN [out |-> r.out, h |-> h, c |-> c]
    ELSE [out |-> "ok", h |-> h,
          c |-> [r.c EXCEPT !.acqs_ =
                   [i \in 1..number(c) |-> c.acqs_[index(c, i - 1).ind + 1]]]]

\* MRAcquisitionData::clone: the container made by clone_impl
clone(h, c, ub) ==
    LET r == clone_impl(Deref(h, c), ub) IN
    IF r.out # "ok" THEN [out |-> r.out, h |-> h, c |-> c]
    ELSE LET w == Commit(h, AcquisitionsVector(c.acqs_info_), r.c) IN
         [out |-> "ok", h |-> w.h, c |-> w.c]

(***************************************************************************)
(* SpecMem: two containers x and y and the caller's acquisition object.    *)
(***************************************************************************)
MemContainers == {"x", "y"}

MemAcquisitions ==
    {Acquisition(1, {}, 0, 0, <<Complex(1, 1)>>),
     Acquisition(0, {ISMRMRD_ACQ_IS_NOISE_MEASUREMENT}, 1, 0, <<Complex(2, 1)>>)}

\* the index lists passed to get_subset and set_subset
SubsetIdx == {<<>>, <<0>>, <<1, 0>>, <<0, MaxOperand>>}

\* the array passed to set_data
SetDataArray == [i \in 1..(MaxOperand + 1) |-> Complex(4, i)]

InitMem ==
    /\ cont = [c \in MemContainers |->
                 AcquisitionsVector(IF c = "x" THEN Header(1, SliceLimits)
                                    ELSE Header(1, SliceContrastLimits))]
    /\ last = Call("new", "x", "ok", <<>>)
    /\ fresh = MemContainers
    /\ heap = (Caller :> Acquisition(0, {}, 0, 0, <<Complex(0, 0)>>))
    /\ file = NoFile /\ mutex = "free"

\* A behaviour of SpecMem builds x and the caller's acquisition (assign,
\* get_acquisition, append_acquisition, sort), copies to y (clone,
\* get_subset, append_acquisition) and ends with writes to x or y.
MemBuilding ==
    /\ Running
    /\ \/ last.op \in {"new", "assign", "get_acquisition", "sort_by_time"}
       \/ last.op = "append_acquisition" /\ last.recv = "x"

MemDerived ==
    \/ MemBuilding
    \/ /\ Running
       /\ \/ last.op \in {"clone", "get_subset"}
          \/ last.op = "append_acquisition" /\ last.recv = "y"

MemWritable == MemDerived \/ (Running /\ last.op = "unary_op")

\* the end of a call on container c that left the value v of it
MemReturn(c, v, call) ==
    LET w == Commit(heap, cont[c], v)
        cs == [cont EXCEPT ![c] = w.c]
    IN /\ cont' = cs
       /\ heap' = Release(w.h, cs)
       /\ last' = call
       /\ fresh' = fresh \ {c}
       /\ UNCHANGED <<file, mutex>>

\* the calling code assigns to its acquisition object
MemAssign ==
    /\ MemBuilding
    /\ \E acq \in MemAcquisitions :
         /\ heap[Caller] # acq
         /\ heap' = [heap EXCEPT ![Caller] = acq]
    /\ last' = Call("assign", "acq", "ok", <<>>)
    /\ UNCHANGED <<cont, fresh, file, mutex>>

MemGetAcquisition(c) ==
    /\ MemBuilding
    /\ \E num \in 0..MaxOperand :
         LET g == get_acquisition(Deref(heap, cont[c]), num) IN
         /\ heap' = IF g.out = "ok" THEN [heap EXCEPT ![Caller] = g.acq]
                    ELSE heap
         /\ last' = [Call("get_acquisition", c, g.out, g.ret)
                       EXCEPT !.args = Args(<<>>, <<num>>, "")]
    /\ UNCHANGED <<cont, fresh, file, mutex>>

MemAppendAcquisition(c) ==
    /\ (IF c = "x" THEN MemBuilding ELSE MemDerived)
    /\ number(cont[c]) < MaxOperand
    /\ MemReturn(c, append_acquisition(Deref(heap, cont[c]), heap[Caller]),
                 Call("append_acquisition", c, "ok", <<>>))

MemSetAcquisition(c) ==
    /\ MemWritable
    /\ \E num \in 0..MaxOperand :
         LET r == set_acquisition(Deref(heap, cont[c]), num, heap[Caller]) IN
         MemReturn(c, r.c,
                   [Call("set_acquisition", c, r.out, <<>>)
                      EXCEPT !.args = Args(<<>>, <<num>>, "")])

MemSort(c) ==
    /\ MemBuilding
    /\ \E ub \in UBOutcomes(cont[c]) :
         LET r == sort(Deref(heap, cont[c]), ub) IN
         MemReturn(c, r.c, Call("sort_by_time", c, r.out, <<>>))

\* d = c.clone(): the handle d now holds the clone
MemClone(c, d) ==
    /\ MemBuilding
    /\ \E ub \in UBOutcomes(cont[c]) :
         LET r == clone(heap, cont[c], ub)
             cs == IF r.out = "ok" THEN [cont EXCEPT ![d] = r.c] ELSE cont
         IN /\ cont' = cs
            /\ heap' = Release(r.h, cs)
            /\ last' = [Call("clone", d, r.out, <<>>)
                          EXCEPT !.args = Args(<<c>>, <<>>, "")]
    /\ fresh' = fresh \ {d}
    /\ UNCHANGED <<file, mutex>>

\* c.get_subset(d, subset_idx)
MemGetSubset(c, d) ==
    /\ MemDerived
    /\ \E subset_idx \in SubsetIdx :
         LET r == get_subset(Deref(heap, cont[c]), Deref(heap, cont[d]),
                             subset_idx)
         IN MemReturn(d, r.subset,
                      [Call("get_subset", d, r.out, <<>>)
                         EXCEPT !.args = Args(<<c>>, subset_idx, "")])

\* c.set_subset(d, subset_idx)
MemSetSubset(c, d) ==
    /\ MemWritable
    /\ \E subset_idx \in SubsetIdx :
         LET r == set_subset(Deref(heap, cont[c]), Deref(heap, cont[d]),
                             subset_idx)
         IN MemReturn(c, r.c,
                      [Call("set_subset", c, r.out, <<>>)
                         EXCEPT !.args = Args(<<d>>, subset_idx, "")])

MemConjugate(c) ==
    /\ MemWritable
    /\ LET r == conjugate_impl(Deref(heap, cont[c])) IN
         MemReturn(c, r.c, Call("conjugate", c, r.out, <<>>))

MemSetData(c) ==
    /\ MemWritable
    /\ \E all \in {0, 1} :
         LET r == set_data(Deref(heap, cont[c]), SetDataArray, all) IN
         MemReturn(c, r.c,
                   [Call("set_data", c, r.out, <<>>)
                      EXCEPT !.args = Args(<<>>, <<all>>, "")])

MemEmpty(c) ==
    /\ MemDerived
    /\ MemReturn(c, empty(Deref(heap, cont[c])), Call("empty", c, "ok", <<>>))

\* z.unary_op(x, f): an algebra call that writes to z what it reads from x
MemUnaryOp(z, x, f) ==
    /\ MemWritable
    /\ \E ub \in UBOutcomes(cont[z]) :
         LET r == unary_op(View(heap, cont), z, x, f, ub) IN
         MemReturn(z, r.cs[z],
                   AlgebraCall("unary_op", z, r.out, Args(<<x>>, <<>>, f)))

NextMem ==
    \/ MemAssign
    \/ MemGetAcquisition("x")
    \/ MemSort("x")
    \/ MemClone("x", "y")
    \/ MemGetSubset("x", "y")
    \/ MemSetSubset("y", "x")
    \/ MemUnaryOp("y", "x", "abs")
    \/ \E c \in MemContainers :
         \/ MemAppendAcquisition(c)
         \/ MemSetAcquisition(c)
         \/ MemConjugate(c)
         \/ MemSetData(c)
         \/ MemEmpty(c)

SpecMem == InitMem /\ [][NextMem]_vars

(***************************************************************************)
(* SpecIO: a container x is built and written to a file, and a file is     *)
(* read into the container r.                                              *)
(***************************************************************************)
IOAcquisitions ==
    {Acquisition(1, {}, 0, 0, <<Complex(1, 1)>>),
     Acquisition(0, {}, 1, 0, <<Complex(2, 1)>>),
     Acquisition(0, {ISMRMRD_ACQ_IS_NOISE_MEASUREMENT}, 0, 0, <<Complex(3, 1)>>)}

InitIO ==
    /\ cont = [c \in {"x", "r"} |->
                 AcquisitionsVector(IF c = "x" THEN Header(1, SliceLimits)
                                    ELSE AcquisitionsInfo)]
    /\ last = Call("new", "x", "ok", <<>>)
    /\ fresh = {"x", "r"}
    /\ heap = NoHeap /\ file = NoFile /\ mutex = "free"

IOAppendAcquisition(c) ==
    /\ Running
    /\ number(cont[c]) < MaxOperand
    /\ \E acq \in IOAcquisitions :
         /\ cont' = [cont EXCEPT ![c] = append_acquisition(@, acq)]
         /\ last' = Call("append_acquisition", c, "ok", <<>>)
    /\ UNCHANGED <<fresh, heap, file, mutex>>

IOSort(c) ==
    /\ Running
    /\ \E ub \in UBOutcomes(cont[c]) :
         LET r == sort(cont[c], ub) IN
         /\ cont' = [cont EXCEPT ![c] = r.c]
         /\ last' = Call("sort_by_time", c, r.out, <<>>)
    /\ fresh' = fresh \ {c}
    /\ UNCHANGED <<heap, file, mutex>>

Write(c) ==
    /\ Running
    /\ \E filename \in Filenames :
         LET r == write(cont[c], file, filename, mutex) IN
         /\ file' = r.file
         /\ mutex' = r.mutex
         /\ last' = [Call("write", c, r.out, <<>>)
                       EXCEPT !.args = Args(<<>>, <<>>, filename)]
    /\ UNCHANGED <<cont, fresh, heap>>

\* read into a container that was constructed and nothing else
Read(c) ==
    /\ Running
    /\ c \in fresh /\ number(cont[c]) = 0
    /\ \E filename \in Filenames, all \in {0, 1}, dz \in DivisionByZero :
         \E ub \in UBOutcomes([cont[c] EXCEPT !.acqs_info_ = file.hdr]) :
           LET r == read(cont[c], file, filename, all, mutex, dz, ub) IN
           /\ cont' = [cont EXCEPT ![c] = r.c]
           /\ mutex' = r.mutex
           /\ last' = [Call("read", c, r.out, <<>>)
                         EXCEPT !.args = Args(<<>>, <<all>>, filename)]
           /\ fresh' = IF r.out = "ok" THEN fresh \ {c} ELSE fresh
    /\ UNCHANGED <<heap, file>>

NextIO ==
    \/ IOAppendAcquisition("x")
    \/ IOSort("x")
    \/ Write("x")
    \/ Read("r")

SpecIO == InitIO /\ [][NextIO]_vars

(***************************************************************************)
(* SpecIgn: the containers x and y are built from acquisitions of which    *)
(* some are to be ignored; a behaviour ends with a reduction, with an      *)
(* algebra call on the empty container z, or with x written to a file and  *)
(* the file read into r.                                                   *)
(***************************************************************************)
IgnAcquisitions(c, pos) ==
    LET d == IF c = "x" THEN 1 ELSE 3 IN
    {Acquisition(pos, {}, pos % 2, 0,
                 <<Complex(IF c = "x" THEN pos - 2 ELSE d + pos, 1)>>),
     Acquisition(pos, {ISMRMRD_ACQ_IS_NOISE_MEASUREMENT}, 0, 0,
                 <<Complex(d + pos, 2)>>)}

InitIgn ==
    /\ cont = [c \in {"x", "y", "z", "r"} |->
                 AcquisitionsVector(Header(1, SliceLimits))]
    /\ last = Call("new", "x", "ok", <<>>)
    /\ fresh = {"x", "y", "z", "r"}
    /\ heap = NoHeap /\ file = NoFile /\ mutex = "free"

IgnBuilding ==
    Running /\ last.op \in {"new", "append_acquisition", "sort_by_time"}

IgnAppendAcquisition(c) ==
    /\ IgnBuilding
    /\ number(cont[c]) < MaxOperand
    /\ \E acq \in IgnAcquisitions(c, number(cont[c])) :
         /\ cont' = [cont EXCEPT ![c] = append_acquisition(@, acq)]
         /\ last' = Call("append_acquisition", c, "ok", <<>>)
    /\ UNCHANGED <<fresh, heap, file, mutex>>

Dot(c, other) ==
    /\ Running
    /\ LET r == dot(cont[c], cont[other]) IN
         last' = [Call("dot", c, r.out, r.ret)
                    EXCEPT !.args = Args(<<other>>, <<>>, "")]
    /\ UNCHANGED <<cont, fresh, heap, file, mutex>>

Sum(c) ==
    /\ Running
    /\ LET r == sum(cont[c]) IN last' = Call("sum", c, r.out, r.ret)
    /\ UNCHANGED <<cont, fresh, heap, file, mutex>>

Max(c) ==
    /\ Running
    /\ LET r == max(cont[c]) IN last' = Call("max", c, r.out, r.ret)
    /\ UNCHANGED <<cont, fresh, heap, file, mutex>>

Norm(c) ==
    /\ Running
    /\ LET r == norm(cont[c]) IN last' = Call("norm", c, r.out, r.ret)
    /\ UNCHANGED <<cont, fresh, heap, file, mutex>>

NextIgn ==
    \/ \E c \in {"x", "y"} : IgnAppendAcquisition(c) \/ (IgnBuilding /\ Sort(c))
    \/ IgnBuilding /\ Dot("x", "y")
    \/ IgnBuilding /\ Sum("x")
    \/ IgnBuilding /\ Max("x")
    \/ IgnBuilding /\ Norm("x")
    \/ IgnBuilding /\ BinaryOp("z", "x", "y")
    \/ IgnBuilding /\ UnaryOp("z", "x", "abs")
    \/ IgnBuilding /\ Write("x")
    \/ Running /\ last.op = "write" /\ Read("r")

SpecIgn == InitIgn /\ [][NextIgn]_vars

(***************************************************************************)
(* The C entry points (cgadgetron.cpp).  The outcome of an entry point is  *)
(* "handle" (a data or object handle is returned), "status" (the handle    *)
(* returned carries an ExecutionStatus with the error) or "exception" (an  *)
(* exception leaves the extern "C" function).                              *)
(***************************************************************************)
RECURSIVE copy_acquisitions_data_loop(_, _, _)
copy_acquisitions_data_loop(c, ac, a) ==
    IF a >= number(c) THEN [out |-> "ok", c |-> c]
    ELSE LET g == get_acquisition(ac, a) IN
         IF g.out = "throw" THEN [out |-> "throw", c |-> c]
         ELSE IF Len(c.acqs_[a + 1].data) # Len(g.acq.data)
              THEN [out |-> "throw", c |-> c]
              ELSE copy_acquisitions_data_loop(
                     [c EXCEPT !.acqs_[a + 1].data = g.acq.data], ac, a + 1)

\* AcquisitionsVector::copy_acquisitions_data (c is this): the sizes are
\* compared first, the sample counts element by element while copying
copy_acquisitions_data(c, ac) ==
    IF number(c) # number(ac) THEN [out |-> "throw", c |-> c]
    ELSE copy_acquisitions_data_loop(c, ac, 0)

\* try { ... } CATCH; around the body of an entry point
CATCH(r) == IF r.out = "throw" THEN "status" ELSE "handle"

\* the body of an entry point that has no try block
NoTry(r) == IF r.out = "throw" THEN "exception" ELSE "handle"

(***************************************************************************)
(* SpecABI: the containers x and y are used through the entry points       *)
(* only.  An exception that leaves an entry point ends the behaviour.      *)
(***************************************************************************)
ABIAcquisitions ==
    {Acquisition(0, {}, 0, 0, <<Complex(1, 0)>>),
     Acquisition(1, {}, 1, 0, <<Complex(2, 0), Complex(3, 0)>>)}

ABIArray == [i \in 1..(2 * MaxOperand) |-> Complex(5, i)]

InitABI ==
    /\ cont = [c \in {"x", "y"} |-> AcquisitionsVector(Header(1, SliceLimits))]
    /\ last = Call("new", "x", "ok", <<>>)
    /\ fresh = {"x", "y"}
    /\ heap = NoHeap /\ file = NoFile /\ mutex = "free"

ABIRunning == last.out \notin {"crash", "exception"}

cGT_appendAcquisition(c) ==
    /\ ABIRunning
    /\ number(cont[c]) < MaxOperand
    /\ \E acq \in ABIAcquisitions :
         LET r == [out |-> "ok", c |-> append_acquisition(cont[c], acq)] IN
         /\ cont' = [cont EXCEPT ![c] = r.c]
         /\ last' = Call("cGT_appendAcquisition", c, CATCH(r), <<>>)
    /\ UNCHANGED <<fresh, heap, file, mutex>>

cGT_sortAcquisitions(c) ==
    /\ ABIRunning
    /\ \E ub \in UBOutcomes(cont[c]) :
         LET r == sort(cont[c], ub) IN
         /\ cont' = [cont EXCEPT ![c] = r.c]
         /\ last' = Call("cGT_sortAcquisitions", c, CATCH(r), <<>>)
    /\ fresh' = fresh \ {c}
    /\ UNCHANGED <<heap, file, mutex>>

\* get_acquisition_sptr(acq_num) is acqs_[index(acq_num)]
cGT_acquisitionFromContainer(c) ==
    /\ ABIRunning
    /\ \E acq_num \in 0..MaxOperand :
         LET r == index(cont[c], acq_num) IN
         last' = [Call("cGT_acquisitionFromContainer", c, CATCH(r), <<>>)
                    EXCEPT !.args = Args(<<>>, <<acq_num>>, "")]
    /\ UNCHANGED <<cont, fresh, heap, file, mutex>>

cGT_fillAcquisitionData(c) ==
    /\ ABIRunning
    /\ \E all \in {0, 1} :
         LET r == set_data(cont[c], ABIArray, all) IN
         /\ cont' = [cont EXCEPT ![c] = r.c]
         /\ last' = [Call("cGT_fillAcquisitionData", c, NoTry(r), <<>>)
                       EXCEPT !.args = Args(<<>>, <<all>>, "")]
    /\ UNCHANGED <<fresh, heap, file, mutex>>

cGT_fillAcquisitionDataFromAcquisitionData(dst, src) ==
    /\ ABIRunning
    /\ LET r == copy_acquisitions_data(cont[dst], cont[src]) IN
         /\ cont' = [cont EXCEPT ![dst] = r.c]
         /\ last' = [Call("cGT_fillAcquisitionDataFromAcquisitionData",
                          dst, NoTry(r), <<>>)
                       EXCEPT !.args = Args(<<src>>, <<>>, "")]
    /\ UNCHANGED <<fresh, heap, file, mutex>>

NextABI ==
    \/ \E c \in {"x", "y"} : cGT_appendAcquisition(c)
    \/ cGT_sortAcquisitions("x")
    \/ cGT_acquisitionFromContainer("x")
    \/ cGT_fillAcquisitionData("x")
    \/ cGT_fillAcquisitionDataFromAcquisitionData("x", "y")

SpecABI == InitABI /\ [][NextABI]_vars

(***************************************************************************)
(* Image containers (GadgetronImagesVector).  An image is the part of its  *)
(* header that sort() and set_up_geom_info() read and its data: proj is    *)
(* the projection of position onto slice_dir, nz is matrix_size[2].  The   *)
(* direction vectors read_dir, phase_dir and slice_dir have integer        *)
(* components; an image has the three unit vectors of the axes unless      *)
(* setDirections gives it others.                                          *)
(***************************************************************************)
ImageWrap(proj, contrast, repetition, slice, nz, data) ==
    [proj |-> proj, contrast |-> contrast, repetition |-> repetition,
     slice |-> slice, nz |-> nz, data |-> data, channels |-> 1,
     read_dir |-> <<1, 0, 0>>, phase_dir |-> <<0, 1, 0>>,
     slice_dir |-> <<0, 0, 1>>]

\* Image::setReadDirection, setPhaseDirection and setSliceDirection
setDirections(iw, read_dir, phase_dir, slice_dir) ==
    [iw EXCEPT !.read_dir = read_dir, !.phase_dir = phase_dir,
               !.slice_dir = slice_dir]

\* the pointer to the geometry descriptor of an ImageData, <<>> or <<d>>:
\* a null pointer before set_geom_info
NoGeomInfo == <<>>

GadgetronImagesVector(info) ==
    [images_ |-> <<>>, index_ |-> <<>>, sorted_ |-> FALSE, acqs_info_ |-> info,
     geom_info_ |-> NoGeomInfo]

\* GadgetronImagesVector::items() and number(): images_.size()
items(c) == Len(c.images_)

\* ISMRMRDImageData::index(int), then images_.at(i)
sptr_image_wrap(c, im_num) ==
    LET ni == Len(c.index_) IN
    IF im_num < 0 \/ (ni > 0 /\ im_num >= ni) \/ im_num >= items(c)
    THEN [out |-> "throw", i |-> 0, iw |-> <<>>]
    ELSE LET i == IF ni > 0 THEN c.index_[im_num + 1] ELSE im_num IN
         IF i >= items(c) THEN [out |-> "throw", i |-> i, iw |-> <<>>]
         ELSE [out |-> "ok", i |-> i, iw |-> c.images_[i + 1]]

\* GadgetronImagesVector::append(const ImageWrap&): a copy at the end
append(c, iw) == [c EXCEPT !.images_ = Append(@, iw)]

\* the tuple (-projection, contrast, repetition) of sort() as one number
\* that orders as the tuples do (contrast and repetition are below 10)
SortKey(iw) == (0 - iw.proj) * 100 + iw.contrast * 10 + iw.repetition

\* GadgetronImagesVector::sort: the images are put into the order of their
\* tuples and index_ is emptied again
GadgetronImagesVector_sort(c) ==
    LET ni == items(c)
        vt == [i \in 1..ni |-> SortKey(sptr_image_wrap(c, i - 1).iw)]
        iota == [i \in 1..ni |-> i - 1]
        c1 == [c EXCEPT !.index_ = stable_sort(iota, vt), !.sorted_ = TRUE]
    IN [c1 EXCEPT !.images_ = [i \in 1..ni |-> sptr_image_wrap(c1, i - 1).iw],
                  !.index_ = <<>>]

RECURSIVE MaxSlice(_, _)
MaxSlice(c, im) ==
    IF im = 0 THEN sptr_image_wrap(c, 0).iw.slice
    ELSE LET m == MaxSlice(c, im - 1)
             sl == sptr_image_wrap(c, im).iw.slice
         IN IF sl > m THEN sl ELSE m

\* the scalar product of two vectors
Scalar(v, w) == v[1] * w[1] + v[2] * w[2] + v[3] * w[3]

\* is_unit_vector: |v.v - 1| < 1e-4, for integer components
is_unit_vector(vec) == Scalar(vec, vec) = 1

\* are_vectors_equal: no component differs by more than 1e-4
are_vectors_equal(vec1, vec2) == \A i \in 1..3 : vec1[i] = vec2[i]

\* the loop over the images 1, 2, ...: the three directions are those of
\* the first image
DirectionsConstant(c) ==
    LET ih1 == sptr_image_wrap(c, 0).iw IN
    \A im \in 1..(items(c) - 1) :
       LET ih == sptr_image_wrap(c, im).iw IN
       /\ are_vectors_equal(ih1.read_dir, ih.read_dir)
       /\ are_vectors_equal(ih1.phase_dir, ih.phase_dir)
       /\ are_vectors_equal(ih1.slice_dir, ih.slice_dir)

\* get_slice_spacing: the distance of the projections of the positions
get_slice_spacing(ih1, ih2) ==
    IF ih1.proj >= ih2.proj THEN ih1.proj - ih2.proj ELSE ih2.proj - ih1.proj

\* the check that the spacing of all adjacent images is that of the first two
SpacingConstant(c) ==
    LET spacing == get_slice_spacing(sptr_image_wrap(c, 0).iw,
                                     sptr_image_wrap(c, 1).iw)
    IN \A im \in 0..(items(c) - 2) :
          get_slice_spacing(sptr_image_wrap(c, im).iw,
                            sptr_image_wrap(c, im + 1).iw) = spacing

\* the descriptor made at the end of set_up_geom_info: the negated
\* directions of the first image, size[2] and, for a stack of slices, the
\* spacing taken from the first two images (offset, the sizes and the
\* spacings in the plane are left out)
VoxelisedGeometricalInfo3D(ih1, size_z, stack_spacing) ==
    [direction |-> [v \in {"read", "phase", "slice"} |->
                      LET d == CASE v = "read" -> ih1.read_dir
                                 [] v = "phase" -> ih1.phase_dir
                                 [] v = "slice" -> ih1.slice_dir
                      IN [i \in 1..3 |-> 0 - d[i]]],
     size_z |-> size_z,
     stack_spacing |-> stack_spacing]

\* GadgetronImagesVector::set_up_geom_info: sorts an unsorted container,
\* returns without a new descriptor for directions that are no unit vectors
\* or not constant and for a stack of uneven spacing, throws for 3D data of
\* more than one slice
set_up_geom_info(c) ==
    IF items(c) < 1 THEN [out |-> "ok", c |-> c, is_2d_stack |-> FALSE]
    ELSE LET c1 == IF ~c.sorted_ THEN GadgetronImagesVector_sort(c) ELSE c
             ih1 == sptr_image_wrap(c1, 0).iw
             number_slices == MaxSlice(c1, items(c1) - 1) + 1
             is_2d_stack == number_slices > 1 /\ ih1.nz = 1
             returns(cn) == [out |-> "ok", c |-> cn, is_2d_stack |-> is_2d_stack]
             throws == [out |-> "throw", c |-> c1, is_2d_stack |-> is_2d_stack]
         IN IF ~(/\ is_unit_vector(ih1.read_dir)
                 /\ is_unit_vector(ih1.phase_dir)
                 /\ is_unit_vector(ih1.slice_dir))
            THEN [out |-> "ok", c |-> c1, is_2d_stack |-> FALSE]
            ELSE IF ~DirectionsConstant(c1)
            THEN [out |-> "ok", c |-> c1, is_2d_stack |-> FALSE]
            ELSE IF number_slices > 1 /\ ih1.nz > 1 THEN throws
            ELSE IF ~is_2d_stack
            THEN returns([c1 EXCEPT !.geom_info_ =
                            <<VoxelisedGeometricalInfo3D(ih1, ih1.nz, <<>>)>>])
            \* image_wrap(1) of a container of one image: images_.at(1)
            ELSE IF sptr_image_wrap(c1, 1).out = "throw" THEN throws
            ELSE IF ~SpacingConstant(c1) THEN returns(c1)
            ELSE returns([c1 EXCEPT !.geom_info_ =
                            <<VoxelisedGeometricalInfo3D(
                                ih1, number_slices,
                                <<get_slice_spacing(ih1, sptr_image_wrap(c1, 1).iw)>>)>>])

\* GadgetronImageData::set_meta_data
set_meta_data(c, acqs_info) ==
    set_up_geom_info([c EXCEPT !.acqs_info_ = acqs_info])

\* ImageWrap::axpby: the data of w become a * u + b * v
ImageWrap_axpby(w, a, u, b, v) ==
    [w EXCEPT !.data = [s \in 1..Len(u.data) |->
                          CAdd(CMul(a, u.data[s]), CMul(b, v.data[s]))]]

\* ImageWrap::xapyb: a and b are each a number or an image
ImageWrap_xapyb(w, u, a, v, b) ==
    [w EXCEPT !.data = [s \in 1..Len(u.data) |->
        CAdd(CMul(u.data[s], IF "data" \in DOMAIN a THEN a.data[s] ELSE a.v_),
             CMul(v.data[s], IF "data" \in DOMAIN b THEN b.data[s] ELSE b.v_))]]

\* ImageWrap::binary_op
ImageWrap_binary_op(w, u, v, f) ==
    [w EXCEPT !.data = [s \in 1..Len(u.data) |->
                          BinaryFn(f, u.data[s], v.data[s])]]

\* the receiver after result r was stored for position i: overwritten in
\* place if the receiver was not empty (n > 0), appended otherwise
StoreImage(z, n, i, r) ==
    IF n > 0 THEN [z EXCEPT !.images_[sptr_image_wrap(z, i).i + 1] = r]
    ELSE append(z, r)

RECURSIVE GadgetronImageData_axpby_loop(_, _, _, _, _, _, _)
GadgetronImageData_axpby_loop(z, a, x, b, y, n, i) ==
    IF i >= items(x) THEN [out |-> "ok", c |-> z]
    ELSE LET u == sptr_image_wrap(x, i)
             v == sptr_image_wrap(y, i)
             t == IF n > 0 THEN sptr_image_wrap(z, i) ELSE u
         IN IF u.out = "throw" \/ v.out = "throw" \/ t.out = "throw"
            THEN [out |-> "throw", c |-> z]
            ELSE GadgetronImageData_axpby_loop(
                   StoreImage(z, n, i, ImageWrap_axpby(t.iw, a, u.iw, b, v.iw)),
                   a, x, b, y, n, i + 1)

\* axpby without the test of the receiver's size
GadgetronImageData_axpby_unchecked(z, a, x, b, y) ==
    IF items(x) # items(y) THEN [out |-> "throw", c |-> z]
    ELSE LET r == GadgetronImageData_axpby_loop(z, a, x, b, y, items(z), 0) IN
         IF r.out = "throw" THEN r ELSE set_meta_data(r.c, x.acqs_info_)

\* GadgetronImageData::axpby (z is this)
GadgetronImageData_axpby(z, a, x, b, y) ==
    IF items(x) # items(y) THEN [out |-> "throw", c |-> z]
    ELSE IF items(z) > 0 /\ items(z) # items(x) THEN [out |-> "throw", c |-> z]
    ELSE LET r == GadgetronImageData_axpby_loop(z, a, x, b, y, items(z), 0) IN
         IF r.out = "throw" THEN r ELSE set_meta_data(r.c, x.acqs_info_)

\* ComplexFloat_: a number in the place of a container of coefficients;
\* its number() is 0 and its image_wrap(i) is the number
ComplexFloat_(v) == [v_ |-> v]

\* A::number() and A::image_wrap(i) of a coefficient
CoefNumber(a) == IF "v_" \in DOMAIN a THEN 0 ELSE items(a)

CoefImageWrap(a, i) ==
    IF "v_" \in DOMAIN a THEN [out |-> "ok", i |-> i, iw |-> a]
    ELSE sptr_image_wrap(a, i)

RECURSIVE xapyb_loop_(_, _, _, _, _, _, _)
xapyb_loop_(z, x, a, y, b, n, i) ==
    IF i >= items(x) THEN [out |-> "ok", c |-> z]
    ELSE LET u == sptr_image_wrap(x, i)
             v == sptr_image_wrap(y, i)
             ai == CoefImageWrap(a, i)
             bi == CoefImageWrap(b, i)
             t == IF n > 0 THEN sptr_image_wrap(z, i) ELSE u
         IN IF \/ u.out = "throw" \/ v.out = "throw" \/ ai.out = "throw"
               \/ bi.out = "throw" \/ t.out = "throw"
            THEN [out |-> "throw", c |-> z]
            ELSE xapyb_loop_(
                   StoreImage(z, n, i,
                              ImageWrap_xapyb(t.iw, u.iw, ai.iw, v.iw, bi.iw)),
                   x, a, y, b, n, i + 1)

\* ISMRMRDImageData::xapyb_ (z is this)
xapyb_(z, x, a, y, b) ==
    LET nx == items(x)
        na == CoefNumber(a)
        nb == CoefNumber(b)
    IN IF nx # items(y) THEN [out |-> "throw", c |-> z]
       ELSE IF na > 0 /\ na # nx THEN [out |-> "throw", c |-> z]
       ELSE IF nb > 0 /\ nb # nx THEN [out |-> "throw", c |-> z]
       ELSE IF items(z) > 0 /\ items(z) # nx THEN [out |-> "throw", c |-> z]
       ELSE LET r == xapyb_loop_(z, x, a, y, b, items(z), 0) IN
            IF r.out = "throw" THEN r ELSE set_meta_data(r.c, x.acqs_info_)

RECURSIVE GadgetronImageData_binary_op_loop(_, _, _, _, _, _)
GadgetronImageData_binary_op_loop(z, x, y, f, n, i) ==
    IF ~(i < items(x) /\ i < items(y)) THEN [out |-> "ok", c |-> z]
    ELSE LET u == sptr_image_wrap(x, i)
             v == sptr_image_wrap(y, i)
             t == IF n > 0 THEN sptr_image_wrap(z, i) ELSE u
         IN IF u.out = "throw" \/ v.out = "throw" \/ t.out = "throw"
            THEN [out |-> "throw", c |-> z]
            ELSE GadgetronImageData_binary_op_loop(
                   StoreImage(z, n, i, ImageWrap_binary_op(t.iw, u.iw, v.iw, f)),
                   x, y, f, n, i + 1)

\* GadgetronImageData::binary_op (z is this)
GadgetronImageData_binary_op(z, x, y, f) ==
    IF items(x) # items(y) THEN [out |-> "throw", c |-> z]
    ELSE IF items(z) > 0 /\ items(z) # items(x) THEN [out |-> "throw", c |-> z]
    ELSE LET r == GadgetronImageData_binary_op_loop(z, x, y, f, items(z), 0) IN
         IF r.out = "throw" THEN r ELSE set_meta_data(r.c, x.acqs_info_)

(***************************************************************************)
(* SpecImg: the image containers x, y, z and a (a container of             *)
(* coefficients) are built by append and sort; a behaviour ends with one   *)
(* algebra call on z.                                                      *)
(***************************************************************************)
Images(c, pos) ==
    CASE c = "x" -> {ImageWrap(0, 0, 0, 0, 1, <<Complex(1, 0)>>),
                     ImageWrap(1, 0, 1, 1, 1, <<Complex(2, 0)>>),
                     ImageWrap(0, 1, 0, 1, 2, <<Complex(3, 0)>>)}
      [] c = "y" -> {ImageWrap(0, 0, pos, 0, 1, <<Complex(1, pos + 1)>>)}
      [] c = "z" -> {ImageWrap(pos, 0, 0, 0, 1, <<Complex(9, pos)>>)}
      [] c = "a" -> {ImageWrap(0, pos, 0, 0, 1, <<Complex(pos + 1, 1)>>)}

Coefficients == {"", "a"}

InitImg ==
    /\ cont = [c \in {"x", "y", "z", "a"} |->
                 GadgetronImagesVector(
                   IF c = "x" THEN Header(1, SliceLimits) ELSE AcquisitionsInfo)]
    /\ last = Call("new", "x", "ok", <<>>)
    /\ fresh = {"x", "y", "z", "a"}
    /\ heap = NoHeap /\ file = NoFile /\ mutex = "free"

ImgBuilding == last.op \in {"new", "append", "sort"}

ImgAppend(c) ==
    /\ ImgBuilding
    /\ items(cont[c]) < MaxOperand
    /\ \E iw \in Images(c, items(cont[c])) :
         cont' = [cont EXCEPT ![c] = append(@, iw)]
    /\ last' = Call("append", c, "ok", <<>>)
    /\ UNCHANGED <<fresh, heap, file, mutex>>

ImgSort(c) ==
    /\ ImgBuilding
    /\ cont' = [cont EXCEPT ![c] = GadgetronImagesVector_sort(@)]
    /\ last' = Call("sort", c, "ok", <<>>)
    /\ fresh' = fresh \ {c}
    /\ UNCHANGED <<heap, file, mutex>>

ImgAxpby(z, x, y) ==
    /\ ImgBuilding
    /\ \E a \in {Complex(2, 0)}, b \in {Complex(0, 1), Complex(0, 0)} :
         LET r == GadgetronImageData_axpby(cont[z], a, cont[x], b, cont[y]) IN
         /\ cont' = [cont EXCEPT ![z] = r.c]
         /\ last' = AlgebraCall("image_axpby", z, r.out,
                                Args(<<x, y>>, <<a, b>>, ""))
    /\ UNCHANGED <<fresh, heap, file, mutex>>

\* the three forms of xapyb: a and b numbers, a a number and b a container,
\* a and b containers ("" stands for a number)
ImgXapyb(z, x, y) ==
    /\ ImgBuilding
    /\ \E ca \in Coefficients, cb \in Coefficients :
         /\ ca = "a" => cb = "a"
         /\ LET a == IF ca = "" THEN ComplexFloat_(Complex(2, 0)) ELSE cont[ca]
                b == IF cb = "" THEN ComplexFloat_(Complex(0, 1)) ELSE cont[cb]
                r == xapyb_(cont[z], cont[x], a, cont[y], b)
            IN /\ cont' = [cont EXCEPT ![z] = r.c]
               /\ last' = AlgebraCall("image_xapyb", z, r.out,
                                      Args(<<x, ca, y, cb>>, <<>>, ""))
    /\ UNCHANGED <<fresh, heap, file, mutex>>

ImgBinaryOp(z, x, y) ==
    /\ ImgBuilding
    /\ LET r == GadgetronImageData_binary_op(cont[z], cont[x], cont[y], "multiply") IN
         /\ cont' = [cont EXCEPT ![z] = r.c]
         /\ last' = AlgebraCall("image_binary_op", z, r.out,
                                Args(<<x, y>>, <<>>, "multiply"))
    /\ UNCHANGED <<fresh, heap, file, mutex>>

NextImg ==
    \/ \E c \in {"x", "y", "z", "a"} : ImgAppend(c)
    \/ \E c \in {"x", "z"} : ImgSort(c)
    \/ ImgAxpby("z", "x", "y")
    \/ ImgXapyb("z", "x", "y")
    \/ ImgBinaryOp("z", "x", "y")

SpecImg == InitImg /\ [][NextImg]_vars

(***************************************************************************)
(* SpecGeom: the geometry of one image container g.  Images of any         *)
(* directions, slice indices, sizes in z and positions are appended, and   *)
(* set_meta_data() derives the geometry, any number of times.              *)
(***************************************************************************)
\* the directions of an image: those of the axes, a read direction that is
\* no unit vector, a phase direction equal to the read direction, and the
\* axes in another order
GeomDirections ==
    {<<<<1, 0, 0>>, <<0, 1, 0>>, <<0, 0, 1>>>>,
     <<<<1, 1, 0>>, <<0, 1, 0>>, <<0, 0, 1>>>>,
     <<<<1, 0, 0>>, <<1, 0, 0>>, <<0, 0, 1>>>>,
     <<<<0, 1, 0>>, <<1, 0, 0>>, <<0, 0, 1>>>>}

\* slice index, matrix_size[2] and projection of the position of an image
GeomSlices == {<<0, 1, 0>>, <<1, 1, 1>>, <<1, 1, 3>>, <<1, 2, 1>>}

GeomImages ==
    {setDirections(ImageWrap(p[3], 0, 0, p[1], p[2], <<>>), d[1], d[2], d[3]) :
       p \in GeomSlices, d \in GeomDirections}

InitGeom ==
    /\ cont = [c \in {"g"} |-> GadgetronImagesVector(AcquisitionsInfo)]
    /\ last = Call("new", "g", "ok", <<>>)
    /\ fresh = {"g"}
    /\ heap = NoHeap /\ file = NoFile /\ mutex = "free"

GeomAppend ==
    /\ items(cont["g"]) < MaxN
    /\ \E iw \in GeomImages : cont' = [cont EXCEPT !["g"] = append(@, iw)]
    /\ last' = Call("append", "g", "ok", <<>>)
    /\ UNCHANGED <<fresh, heap, file, mutex>>

\* set_meta_data(), which ends with set_up_geom_info()
GeomSetMetaData ==
    /\ LET r == set_meta_data(cont["g"], Header(1, SliceLimits)) IN
         /\ cont' = [cont EXCEPT !["g"] = r.c]
         /\ last' = Call("set_meta_data", "g", r.out, r.is_2d_stack)
    /\ fresh' = {}
    /\ UNCHANGED <<heap, file, mutex>>

NextGeom == GeomAppend \/ GeomSetMetaData

SpecGeom == InitGeom /\ [][NextGeom]_vars

(***************************************************************************)
(* Coil sensitivity maps (CoilSensitivitiesVector, an image container).    *)
(* The data of an image of nx pixels (matrix_size[1] = 1) and nc channels  *)
(* are the nx * nz * nc samples, channel after channel.                    *)
(***************************************************************************)
\* Image::setNumberOfChannels
setNumberOfChannels(iw, nc) == [iw EXCEPT !.channels = nc]

\* ImageWrap::get_dim: x, y, z and channels
get_dim(iw) ==
    <<Len(iw.data) \div (iw.nz * iw.channels), 1, iw.nz, iw.channels>>

\* ISMRMRDImageData::get_image_dimensions
get_image_dimensions(c, im_num) ==
    LET w == sptr_image_wrap(c, im_num) IN
    IF w.out = "throw" THEN [out |-> "throw", dim |-> <<0, 0, 0, 0>>]
    ELSE [out |-> "ok", dim |-> get_dim(w.iw)]

\* ISMRMRDImageData::check_dimension_consistency: every pass of the loop
\* reads the dimensions of image 0
check_dimension_consistency(c) ==
    LET first_img_dims == get_image_dimensions(c, 0) IN
    IF first_img_dims.out = "throw" THEN [out |-> "throw", ret |-> FALSE]
    ELSE [out |-> "ok",
          ret |-> \A i \in 1..(items(c) - 1) :
                    first_img_dims.dim = get_image_dimensions(c, 0).dim]

\* KSpaceSubset::get_tag_from_img (average, phase and set are 0)
get_tag_from_img(img) ==
    <<0, img.slice, img.contrast, 0, img.repetition, 0, 0>>

\* CoilSensitivitiesVector::get_csm_as_cfimage(tag, offset): the first map
\* from position offset on, cyclically, with tag_csm[1] == tag[1] and
\* tag_csm[2] == 0
get_csm_as_cfimage(csm, tag, offset) ==
    LET access_idx(i) == (offset + i) % items(csm)
        tag_csm(i) == get_tag_from_img(sptr_image_wrap(csm, access_idx(i)).iw)
        found == {i \in 0..(items(csm) - 1) :
                    \/ sptr_image_wrap(csm, access_idx(i)).out = "throw"
                    \/ tag_csm(i)[2] = tag[2] /\ tag_csm(i)[3] = 0}
    IN IF found = {} THEN [out |-> "throw", i |-> 0, iw |-> <<>>]
       ELSE sptr_image_wrap(csm, access_idx(CHOOSE i \in found :
                                              \A j \in found : i <= j))

\* GadgetronImagesVector::clear_data
clear_data(c) == [c EXCEPT !.images_ = <<>>]

\* the sample (nx, 0, 0, nc) of an image, junk beyond the end of its data
Sample(iw, nx, nc, junk) ==
    LET k == nx + get_dim(iw)[1] * nc IN
    IF k < Len(iw.data) THEN iw.data[k + 1] ELSE junk

\* the image appended by one pass of coilchannels_from_combined_image: the
\* header of the source, the channels of the map, source times map
CoilChannels(src, coilmap, junk) ==
    LET Nx == get_dim(src)[1]
        Nc == coilmap.channels
    IN [setNumberOfChannels(src, Nc) EXCEPT !.data =
          [k \in 1..(Nx * Nc) |->
             CMul(src.data[((k - 1) % Nx) + 1],
                  Sample(coilmap, (k - 1) % Nx, (k - 1) \div Nx, junk))]]

RECURSIVE coilchannels_from_combined_image(_, _, _, _, _)
coilchannels_from_combined_image(csm, img, combined_img, i_img, junk) ==
    IF i_img >= items(combined_img) THEN [out |-> "ok", c |-> img]
    ELSE LET iw_src == sptr_image_wrap(combined_img, i_img) IN
         IF iw_src.out = "throw" THEN [out |-> "throw", c |-> img]
         ELSE LET coilmap == get_csm_as_cfimage(csm, get_tag_from_img(iw_src.iw),
                                                i_img)
              IN IF coilmap.out = "throw" THEN [out |-> "throw", c |-> img]
                 ELSE coilchannels_from_combined_image(
                        csm, append(img, CoilChannels(iw_src.iw, coilmap.iw, junk)),
                        combined_img, i_img + 1, junk)

\* CoilSensitivitiesVector::forward
forward(csm, img, combined_img, junk) ==
    IF items(combined_img) # items(csm) THEN [out |-> "throw", c |-> img]
    ELSE LET ok == check_dimension_consistency(combined_img) IN
         IF ok.out = "throw" \/ ~ok.ret THEN [out |-> "throw", c |-> img]
         ELSE IF get_dim(sptr_image_wrap(combined_img, 0).iw)[4] # 1
         THEN [out |-> "throw", c |-> img]
         ELSE LET m == set_meta_data(img, combined_img.acqs_info_) IN
              IF m.out = "throw" THEN [out |-> "throw", c |-> m.c]
              ELSE coilchannels_from_combined_image(
                     csm, clear_data(m.c), combined_img, 0, junk)

\* the outcomes of writing behind the end of the data of the new image
WriteOutcomes == {"ok", "crash"}

\* the image appended by one pass of combine_images_with_coilmaps: the
\* header of the source, one channel, the sum over the channels of
\* conj(map) * source
CombineChannels(src, coilmap, junk) ==
    LET Nx == get_dim(coilmap)[1]
        Nc == coilmap.channels
        prod(k) == CMul(Conj(coilmap.data[k]),
                        IF k <= Len(src.data) THEN src.data[k] ELSE junk)
        RECURSIVE Over(_, _)
        Over(nx, nc) == IF nc = 0 THEN Complex(0, 0)
                        ELSE CAdd(Over(nx, nc - 1), prod(nx + Nx * (nc - 1)))
    IN [setNumberOfChannels(src, 1) EXCEPT !.data =
          [nx \in 1..get_dim(src)[1] |->
             IF nx <= Nx THEN Over(nx, Nc) ELSE Complex(0, 0)]]

RECURSIVE combine_images_with_coilmaps(_, _, _, _, _, _)
combine_images_with_coilmaps(csm, combined_img, img, i_img, junk, ub) ==
    IF i_img >= items(img) THEN [out |-> "ok", c |-> combined_img]
    ELSE LET iw_src == sptr_image_wrap(img, i_img)
             img_dims == get_image_dimensions(img, 0).dim
         IN IF iw_src.out = "throw" THEN [out |-> "throw", c |-> combined_img]
            ELSE LET coilmap == get_csm_as_cfimage(
                                  csm, get_tag_from_img(iw_src.iw), i_img)
                 IN IF coilmap.out = "throw"
                    THEN [out |-> "throw", c |-> combined_img]
                    ELSE IF img_dims # get_dim(coilmap.iw)
                    THEN [out |-> "throw", c |-> combined_img]
                    \* the sum is written at pixels the new image does not have
                    ELSE IF get_dim(coilmap.iw)[1] > get_dim(iw_src.iw)[1]
                            /\ ub = "crash"
                    THEN [out |-> "crash", c |-> combined_img]
                    ELSE combine_images_with_coilmaps(
                           csm,
                           append(combined_img,
                                  CombineChannels(iw_src.iw, coilmap.iw, junk)),
                           img, i_img + 1, junk, ub)

\* CoilSensitivitiesVector::backward
backward(csm, combined_img, img, junk, ub) ==
    IF items(img) # items(csm) THEN [out |-> "throw", c |-> combined_img]
    ELSE LET ok == check_dimension_consistency(img) IN
         IF ok.out = "throw" \/ ~ok.ret THEN [out |-> "throw", c |-> combined_img]
         ELSE LET m == set_meta_data(combined_img, img.acqs_info_) IN
              IF m.out = "throw" THEN [out |-> "throw", c |-> m.c]
              ELSE combine_images_with_coilmaps(
                     csm, clear_data(m.c), img, 0, junk, ub)

(***************************************************************************)
(* SpecCsm: the maps csm and the input images img are built by appends of  *)
(* images of any slice, contrast and number of pixels; then forward or     *)
(* backward fills dst from img.                                            *)
(***************************************************************************)
\* the images of nc channels that can be appended at position pos
CoilImages(c, pos, nc) ==
    {[setNumberOfChannels(ImageWrap(0, contrast, 0, slice, 1, <<>>), nc)
        EXCEPT !.data = [k \in 1..(nx * nc) |->
                           Complex(IF c = "csm" THEN pos + 1 ELSE pos + 3, k)]] :
       slice \in 0..1, contrast \in 0..1, nx \in 1..2}

CsmChannels == 2

InitCsm ==
    /\ cont = [c \in {"csm", "img", "dst"} |-> GadgetronImagesVector(AcquisitionsInfo)]
    /\ last = Call("new", "csm", "ok", <<>>)
    /\ fresh = {"csm", "img", "dst"}
    /\ heap = NoHeap /\ file = NoFile /\ mutex = "free"

CsmBuilding == last.op \in {"new", "append"}

\* an append to the maps, or to the input images: all of one channel (for
\* forward) or all of the channels of the maps (for backward)
CsmAppend(c) ==
    /\ CsmBuilding
    /\ items(cont[c]) < MaxOperand
    /\ \E nc \in {1, CsmChannels} :
         /\ c = "csm" => nc = CsmChannels
         /\ \A i \in 1..items(cont[c]) : cont[c].images_[i].channels = nc
         /\ \E iw \in CoilImages(c, items(cont[c]), nc) :
              cont' = [cont EXCEPT ![c] = append(@, iw)]
    /\ last' = Call("append", c, "ok", <<>>)
    /\ UNCHANGED <<fresh, heap, file, mutex>>

CsmForward ==
    /\ CsmBuilding
    /\ \E junk \in JunkValues :
         LET r == forward(cont["csm"], cont["dst"], cont["img"], junk) IN
         /\ cont' = [cont EXCEPT !["dst"] = r.c]
         /\ last' = Call("forward", "dst", r.out, <<>>)
    /\ UNCHANGED <<fresh, heap, file, mutex>>

CsmBackward ==
    /\ CsmBuilding
    /\ \E junk \in JunkValues, ub \in WriteOutcomes :
         LET r == backward(cont["csm"], cont["dst"], cont["img"], junk, ub) IN
         /\ cont' = [cont EXCEPT !["dst"] = r.c]
         /\ last' = Call("backward", "dst", r.out, <<>>)
    /\ UNCHANGED <<fresh, heap, file, mutex>>

NextCsm ==
    \/ \E c \in {"csm", "img"} : CsmAppend(c)
    \/ CsmForward
    \/ CsmBackward

SpecCsm == InitCsm /\ [][NextCsm]_vars

(***************************************************************************)
(* Coil images (CoilImagesVector) of Cartesian acquisition data.           *)
(***************************************************************************)
calibration_flags ==
    {ISMRMRD_ACQ_IS_PARALLEL_CALIBRATION,
     ISMRMRD_ACQ_IS_PARALLEL_CALIBRATION_AND_IMAGING}

\* MRAcquisitionData::get_flagged_acquisitions_index, from element i on
\* (g and rest range over sets of one element: each is evaluated once)
RECURSIVE get_flagged_acquisitions_index(_, _, _)
get_flagged_acquisitions_index(c, fl, i) ==
    IF fl = {} \/ i >= number(c) THEN [out |-> "ok", ret |-> <<>>]
    ELSE CHOOSE res \in
           {IF g.out = "throw" \/ rest.out = "throw"
            THEN [out |-> "throw", ret |-> <<>>]
            ELSE [out |-> "ok",
                  ret |-> IF \E f \in fl : isFlagSet(g.acq, f)
                          THEN <<i>> \o rest.ret ELSE rest.ret]
              : g \in {get_acquisition(c, i)},
                rest \in {get_flagged_acquisitions_index(c, fl, i + 1)}} : TRUE

\* the part of extract_calibration_data after the calls of clone() and
\* get_flagged_acquisitions_index()
extract_flagged(ad, uptr_calib_ad, idx_calib_acquisitions, ub) ==
    IF uptr_calib_ad.out # "ok" THEN uptr_calib_ad
    ELSE IF idx_calib_acquisitions.out = "throw"
    THEN [out |-> "throw", c |-> uptr_calib_ad.c]
    ELSE IF Len(idx_calib_acquisitions.ret) < 1 THEN uptr_calib_ad
    ELSE CHOOSE res \in
           {IF g.out = "throw" THEN [out |-> "throw", c |-> g.subset]
            ELSE sort_by_time(g.subset, ub)
              : g \in {get_subset(ad, empty(uptr_calib_ad.c),
                                  idx_calib_acquisitions.ret)}} : TRUE

\* CoilImagesVector::extract_calibration_data for CARTESIAN data
extract_calibration_data(ad, ub) ==
    CHOOSE res \in
      {extract_flagged(ad, uptr_calib_ad, idx_calib_acquisitions, ub)
         : uptr_calib_ad \in {clone_impl(ad, ub)},
           idx_calib_acquisitions \in
             {get_flagged_acquisitions_index(ad, calibration_flags, 0)}} : TRUE

\* the image that the Fourier encoding makes of a k-space subset: the
\* indices of the first acquisition of the subset (the data are left out)
EncodingBackward(subset) ==
    LET acq == subset.acqs_[1] IN
    ImageWrap(0, acq.idx.contrast, acq.idx.repetition, acq.idx.slice, 1, <<>>)

\* the loop of calculate over the subsets sort_idx[i + 1], ...
RECURSIVE calculate_loop(_, _, _, _)
calculate_loop(civ, calib, sort_idx, i) ==
    IF i >= Len(sort_idx) THEN [out |-> "ok", c |-> civ]
    ELSE LET g == get_subset(calib, AcquisitionsVector(AcquisitionsInfo),
                             sort_idx[i + 1])
         IN IF g.out = "throw" THEN [out |-> "throw", c |-> civ]
            ELSE calculate_loop(append(civ, EncodingBackward(g.subset)),
                                calib, sort_idx, i + 1)

\* the part of calculate after the call of extract_calibration_data()
calculate_images(civ, e) ==
    IF e.out # "ok" THEN [out |-> e.out, c |-> civ, calib |-> e.c]
    ELSE CHOOSE res \in
           {IF m.out = "throw" \/ sort_idx.out = "throw"
            THEN [out |-> "throw", c |-> m.c, calib |-> e.c]
            ELSE LET r == calculate_loop(m.c, e.c, sort_idx.ret, 0) IN
                 [out |-> r.out, c |-> r.c, calib |-> e.c]
              : m \in {set_meta_data(civ, e.c.acqs_info_)},
                sort_idx \in {get_kspace_order(e.c)}} : TRUE

\* CoilImagesVector::calculate(const MRAcquisitionData&) for CARTESIAN data;
\* calib is the calibration data it extracted
calculate(civ, ad, ub) ==
    CHOOSE res \in
      {calculate_images(civ, e) : e \in {extract_calibration_data(ad, ub)}} : TRUE

(***************************************************************************)
(* SpecCal: acquisitions with and without calibration flags are appended   *)
(* to ad, which may be sorted at any time; then calculate(ad) fills the    *)
(* coil images civ.  calib keeps the calibration data of the call.         *)
(***************************************************************************)
CalAcquisitions(pos) ==
    {Acquisition(ts, fl, sl, 0, <<Complex(pos + 1, 0)>>) :
       ts \in {pos, MaxN - pos},
       fl \in {{}, {ISMRMRD_ACQ_IS_PARALLEL_CALIBRATION},
               {ISMRMRD_ACQ_IS_PARALLEL_CALIBRATION_AND_IMAGING}},
       sl \in 0..1}

InitCal ==
    /\ cont = [ad |-> AcquisitionsVector(Header(1, SliceLimits)),
               calib |-> AcquisitionsVector(AcquisitionsInfo),
               civ |-> GadgetronImagesVector(AcquisitionsInfo)]
    /\ last = Call("new", "ad", "ok", <<>>)
    /\ fresh = {"ad"}
    /\ heap = NoHeap /\ file = NoFile /\ mutex = "free"

CalBuilding == last.op \in {"new", "append_acquisition", "sort"}

CalAppendAcquisition ==
    /\ CalBuilding
    /\ number(cont["ad"]) < MaxN
    /\ \E acq \in CalAcquisitions(number(cont["ad"])) :
         cont' = [cont EXCEPT !["ad"] = append_acquisition(@, acq)]
    /\ last' = Call("append_acquisition", "ad", "ok", <<>>)
    /\ UNCHANGED <<fresh, heap, file, mutex>>

CalSort ==
    /\ CalBuilding
    /\ LET r == sort(cont["ad"], NoUB) IN
         /\ cont' = [cont EXCEPT !["ad"] = r.c]
         /\ last' = Call("sort", "ad", r.out, <<>>)
    /\ fresh' = {}
    /\ UNCHANGED <<heap, file, mutex>>

Calculate ==
    /\ CalBuilding
    /\ \E r \in {calculate(cont["civ"], cont["ad"], NoUB)} :
         /\ cont' = [cont EXCEPT !["civ"] = r.c, !["calib"] = r.calib]
         /\ last' = Call("calculate", "civ", r.out, <<>>)
    /\ UNCHANGED <<fresh, heap, file, mutex>>

NextCal == CalAppendAcquisition \/ CalSort \/ Calculate

SpecCal == InitCal /\ [][NextCal]_vars

(***************************************************************************)
(* SpecKern: the kernels on single acquisitions.  The containers x, a, y   *)
(* and b hold one acquisition each, with sample arrays of any lengths from *)
(* 1 to MaxOperand; a behaviour is one kernel call with y as the           *)
(* acquisition that is written.                                            *)
(***************************************************************************)
Kernels ==
    {"axpby", "xapyb_ab", "xapyb", "xapyb_b", "binary_op", "semibinary_op",
     "unary_op", "dot"}

KernSample(c, s) ==
    CASE c = "x" -> Complex(s, 1)
      [] c = "a" -> Complex(1, 1)
      [] c = "y" -> Complex(3, s)
      [] c = "b" -> Complex(2, 0)

InitKern ==
    /\ \E len \in [{"x", "a", "y", "b"} -> 1..MaxOperand] :
         cont = [c \in {"x", "a", "y", "b"} |->
                   append_acquisition(
                     AcquisitionsVector(Header(1, SliceLimits)),
                     Acquisition(0, {}, 0, 0,
                                 [s \in 1..len[c] |-> KernSample(c, s)]))]
    /\ last = Call("new", "x", "ok", <<>>)
    /\ fresh = {"x", "a", "y", "b"}
    /\ heap = NoHeap /\ file = NoFile /\ mutex = "free"

\* one call of the kernel k on the acquisitions of x, a, y and b; junk is
\* what a read past the end of a sample array yields
ApplyKernel(k) ==
    /\ last.op = "new"
    /\ \E junk \in JunkValues, sc \in Scalars :
         LET acq_x == cont["x"].acqs_[1]
             acq_a == cont["a"].acqs_[1]
             acq_y == cont["y"].acqs_[1]
             acq_b == cont["b"].acqs_[1]
             r == CASE k = "axpby" -> axpby_acq(sc[1], acq_x, sc[2], acq_y)
                    [] k = "xapyb_ab" -> xapyb_acq_ab(acq_x, sc[1], acq_y, sc[2])
                    [] k = "xapyb" -> xapyb_acq(acq_x, acq_a, acq_y, acq_b, junk)
                    [] k = "xapyb_b" -> xapyb_acq_b(acq_x, sc[1], acq_y, acq_b)
                    [] k = "binary_op" -> binary_op_acq(acq_x, acq_y, "multiply")
                    [] k = "semibinary_op" ->
                         semibinary_op_acq(acq_x, acq_y, sc[1], "multiply")
                    [] k = "unary_op" -> unary_op_acq(acq_x, acq_y, "abs")
                    [] k = "dot" -> acq_y
         IN /\ cont' = [cont EXCEPT !["y"].acqs_[1] = r]
            /\ last' = [Call(k, "y", "ok",
                             IF k = "dot" THEN dot_acq(acq_x, acq_y) ELSE <<>>)
                          EXCEPT !.args = Args(<<>>, <<junk>>, "")]
    /\ UNCHANGED <<fresh, heap, file, mutex>>

NextKern == \E k \in Kernels : ApplyKernel(k)

SpecKern == InitKern /\ [][NextKern]_vars

(***************************************************************************)
(* SpecLoop: the loops of the container-level algebra and reductions, one  *)
(* iteration per step.  While a call runs, last.out is "running" and       *)
(* last.ret holds the locals of the loop: the operand containers o by      *)
(* role, their sizes n read before the loop, the cursors cur (ix, iy, ia,  *)
(* ib by role), the receiver cursor k, isempty and the accumulator acc of  *)
(* dot, sum and max.                                                       *)
(***************************************************************************)
LoopCalls ==
    {"axpby", "xapyb_ab", "xapyb", "xapyb_b", "binary_op", "semibinary_op",
     "unary_op", "dot", "sum", "max"}

\* the operands of the loop of a call, in the order in which an iteration
\* tests them
Cursors(op) ==
    CASE op = "xapyb" -> <<"x", "y", "a", "b">>
      [] op = "xapyb_b" -> <<"x", "y", "b">>
      [] op \in {"axpby", "xapyb_ab", "binary_op", "dot"} -> <<"x", "y">>
      [] OTHER -> <<"x">>

\* dot, sum and max write no receiver
HasReceiver(op) == op \notin {"dot", "sum", "max"}

\* the acquisition that an iteration stores, from the acquisitions g of
\* the operands by role
LoopKernel(op, g) ==
    CASE op \in {"axpby", "xapyb_ab"} ->
           axpby_acq(Complex(2, 0), g["x"], Complex(3, 0), g["y"])
      [] op = "xapyb" -> xapyb_acq(g["x"], g["a"], g["y"], g["b"], Complex(0, 0))
      [] op = "xapyb_b" -> xapyb_acq_b(g["x"], Complex(2, 0), g["y"], g["b"])
      [] op = "binary_op" -> binary_op_acq(g["x"], g["y"], "multiply")
      [] op = "semibinary_op" ->
           semibinary_op_acq(g["x"], g["x"], Complex(2, 0), "multiply")
      [] op = "unary_op" -> unary_op_acq(g["x"], g["x"], "abs")

\* the accumulator of a reduction after an iteration
LoopAccumulate(op, acc, g) ==
    CASE op = "dot" -> CAdd(acc, dot_acq(g["x"], g["y"]))
      [] op = "sum" -> CAdd(acc, sum_acq(g["x"]))
      [] op = "max" -> LET zi == max_acq(g["x"]) IN
                       IF Re(zi) > Re(acc) THEN zi ELSE acc

\* the receiver's element k is to be ignored: k++; continue
SkipReceiver_stays(p) == p

SkipReceiver(p) == [p EXCEPT !.k = @ + 1]

\* the test of the loop condition and, if it holds, one iteration of the
\* loop of call; yields the containers and the call afterwards
LoopIteration(cs, call) ==
    LET p == call.ret
        op == call.op
        z == call.recv
        roles == Cursors(op)
        got == [r \in DOMAIN p.cur |-> get_acquisition(cs[p.o[r]], p.cur[r])]
        \* the first operand whose acquisition is out of range or ignored
        bad == {i \in 1..Len(roles) :
                  got[roles[i]].out = "throw" \/ got[roles[i]].ret = 0}
        first == roles[CHOOSE i \in bad : \A j \in bad : i <= j]
        ends(out, csn) == [cs |-> csn, call |-> [call EXCEPT !.out = out]]
        goes(pn, csn) == [cs |-> csn, call |-> [call EXCEPT !.ret = pn]]
        advanced == [p EXCEPT !.cur = [r \in DOMAIN p.cur |-> p.cur[r] + 1],
                              !.k = @ + 1]
    IN IF \E r \in DOMAIN p.cur : ~(p.cur[r] < p.n[r])
       THEN IF HasReceiver(op)
            THEN LET e == AlgebraEnd([out |-> "ok", cs |-> cs], z, NoUB) IN
                 ends(e.out, e.cs)
            ELSE ends("ok", cs)
       ELSE IF bad # {}
       THEN IF got[first].out = "throw" THEN ends("throw", cs)
            ELSE goes([p EXCEPT !.cur[first] = @ + 1], cs)
       ELSE IF ~HasReceiver(op)
       THEN goes([advanced EXCEPT !.k = p.k, !.acc =
                    LoopAccumulate(op, p.acc, [r \in DOMAIN got |-> got[r].acq])],
                 cs)
       ELSE LET t == Receiver(cs, z, p.isempty, p.k) IN
            IF t = "throw" THEN ends("throw", cs)
            ELSE IF t = "skip" THEN goes(SkipReceiver(p), cs)
            ELSE goes(advanced,
                      Store(cs, z, p.isempty, p.k,
                            LoopKernel(op, [r \in DOMAIN got |-> got[r].acq])))

\* a container of sorted operands or of a receiver: the acquisitions at its
\* positions are ignored or not
LoopContainers(c) ==
    LET RECURSIVE Built(_)
        Built(n) ==
          IF n = 0 THEN {AcquisitionsVector(Header(1, SliceLimits))}
          ELSE {append_acquisition(v, acq) :
                  v \in Built(n - 1), acq \in IgnAcquisitions(c, n - 1)}
        all == UNION {Built(n) : n \in 0..MaxOperand}
    IN IF c = "z" THEN all ELSE {sort(v, NoUB).c : v \in all}

InitLoop ==
    /\ \E vx \in LoopContainers("x"), vy \in LoopContainers("y"),
          vz \in LoopContainers("z") :
         cont = [x |-> vx, y |-> vy, z |-> vz]
    /\ last = Call("new", "x", "ok", <<>>)
    /\ fresh = {"z"}
    /\ heap = NoHeap /\ file = NoFile /\ mutex = "free"

\* the call op on z with the operands x and y (the containers of
\* coefficients a and b are y and x): the statements before the loop
StartCall(op) ==
    /\ last.op = "new"
    /\ LET o == [r \in {"x", "y", "a", "b"} |->
                   IF r \in {"x", "b"} THEN "x" ELSE "y"]
           roles == {Cursors(op)[i] : i \in 1..Len(Cursors(op))}
           p == [o |-> [r \in roles |-> o[r]],
                 n |-> [r \in roles |-> number(cont[o[r]])],
                 cur |-> [r \in roles |-> 0],
                 k |-> 0,
                 isempty |-> number(cont["z"]) < 1,
                 acc |-> Complex(0, 0)]
       IN last' = Call(op, "z",
                       IF HasReceiver(op) /\ \E r \in roles : ~cont[o[r]].sorted_
                       THEN "throw" ELSE "running", p)
    /\ UNCHANGED <<cont, fresh, heap, file, mutex>>

Iterate ==
    /\ last.out = "running"
    /\ \E r \in {LoopIteration(cont, last)} :
         /\ cont' = r.cs
         /\ last' = r.call
    /\ UNCHANGED <<fresh, heap, file, mutex>>

NextLoop == (\E op \in LoopCalls : StartCall(op)) \/ Iterate

SpecLoop == InitLoop /\ [][NextLoop]_vars

\* a call that was entered goes on running
SpecLoopFair == SpecLoop /\ WF_vars(Iterate)

(***************************************************************************)
(* Properties of the sorting and of the k-space subsets.                   *)
(***************************************************************************)
Range(v) == {v[i] : i \in 1..Len(v)}

\* the calls that end with a completed organise_kspace()
Organising == {"organise_kspace", "sort_by_time", "unary_op"}

Organised == last.op \in Organising /\ last.out = "ok"

\* the copy get_acquisition(i, .) gives for logical position i
Logical(c, i) == get_acquisition(c, i).acq

\* C1: after a call of organise_kspace() that returns normally (direct, in a
\* sort, or at the end of an algebra write) the index sets of the stored
\* subsets are non-empty, pairwise disjoint, free of repetitions, and their
\* union is {0, ..., number() - 1}.
C1_SubsetsPartition ==
    Organised =>
      LET c == cont[last.recv]
          S == c.sorting_
      IN /\ \A k \in 1..Len(S) : S[k].idx_set # <<>>
         /\ \A k \in 1..Len(S) : \A l \in 1..Len(S) :
              k # l => Range(S[k].idx_set) \cap Range(S[l].idx_set) = {}
         /\ \A k \in 1..Len(S) :
              Cardinality(Range(S[k].idx_set)) = Len(S[k].idx_set)
         /\ UNION {Range(S[k].idx_set) : k \in 1..Len(S)} = 0..(number(c) - 1)

C1_Witness ==
    /\ Organised
    /\ number(cont[last.recv]) = MaxN
    /\ Len(cont[last.recv].sorting_) = 2

\* the header declares exactly one encoding: organise_kspace() reads it, and
\* no undefined behaviour is involved
OneEncoding(c) == c.acqs_info_.nenc = 1

Sorted == last.op = "sort_by_time" /\ last.out = "ok"

\* C2: after sort_by_time() (or sort()) on a container of N >= 1 acquisitions
\* the logical order is non-decreasing in the acquisition time stamp, and
\* acquisitions with equal time stamps keep their physical order.
C2_SortOrdersByTime ==
    (Sorted /\ OneEncoding(cont[last.recv]) /\ number(cont[last.recv]) >= 1) =>
      LET c == cont[last.recv] IN
      \A i \in 0..(number(c) - 1) : \A j \in 0..(number(c) - 1) :
        i < j =>
          /\ Logical(c, i).ts <= Logical(c, j).ts
          /\ Logical(c, i).ts = Logical(c, j).ts => index(c, i).ind < index(c, j).ind

\* C3: a second sort_by_time() right after a sort_by_time() leaves the
\* permutation index and the list of subsets as the first call left them.
C3_SortIdempotent ==
    [][(Sorted /\ OneEncoding(cont[last.recv])
          /\ last'.op = "sort_by_time" /\ last'.out = "ok")
        => /\ cont'[last.recv].index_ = cont[last.recv].index_
           /\ cont'[last.recv].sorting_ = cont[last.recv].sorting_]_vars

\* C8: after organise_kspace() every logical index is stored in the subset
\* whose tag is the tag of its acquisition, whatever the acquisition's index
\* values and whatever the declared limits.
C8_TagOfSubsetIsTagOfAcquisition ==
    (Organised /\ OneEncoding(cont[last.recv])) =>
      LET c == cont[last.recv]
          S == c.sorting_
      IN \A k \in 1..Len(S) : \A i \in Range(S[k].idx_set) :
           S[k].tag = get_tag_from_acquisition(Logical(c, i))

\* lexicographic order of tags
LexLess(t, u) ==
    \E d \in 1..Len(t) : t[d] < u[d] /\ \A e \in 1..(d - 1) : t[e] = u[e]

Increasing(v) == \A i \in 1..Len(v) : \A j \in 1..Len(v) : i < j => v[i] < v[j]

\* C9: organise_kspace() leaves exactly one subset per distinct tag among
\* the acquisitions, and get_kspace_order() returns the index sets in
\* ascending lexicographic order of the tags of their acquisitions, each
\* index set increasing.
C9_OneSubsetPerTagInTagOrder ==
    (Organised /\ OneEncoding(cont[last.recv]) /\ number(cont[last.recv]) >= 1) =>
      LET c == cont[last.recv]
          order == get_kspace_order(c).ret
          tags == {get_tag_from_acquisition(Logical(c, i)) : i \in 0..(number(c) - 1)}
      IN /\ Len(c.sorting_) = Cardinality(tags)
         /\ Len(order) = Cardinality(tags)
         /\ \A k \in 1..Len(order) : Increasing(order[k])
         /\ \A k \in 1..Len(order) : \A l \in 1..Len(order) :
              k < l => \A i \in Range(order[k]) : \A j \in Range(order[l]) :
                LexLess(get_tag_from_acquisition(Logical(c, i)),
                        get_tag_from_acquisition(Logical(c, j)))

\* C10: get_kspace_order() throws on a non-empty container that was only
\* constructed and appended to, and on an empty container; right after a
\* successful sort of a non-empty container it returns the index sets of
\* the stored subsets, none of them empty, in their stored order.
C10_GetKspaceOrder ==
    [][last'.op = "get_kspace_order" =>
        LET c == cont[last'.recv] IN
        /\ (last'.recv \in fresh /\ number(c) >= 1) => last'.out = "throw"
        /\ number(c) = 0 => last'.out = "throw"
        /\ (Sorted /\ last.recv = last'.recv /\ number(c) >= 1) =>
             /\ last'.out = "ok"
             /\ Len(last'.ret) = Len(c.sorting_)
             /\ \A k \in 1..Len(c.sorting_) :
                  last'.ret[k] = c.sorting_[k].idx_set /\ last'.ret[k] # <<>>]_vars

C10_Witness ==
    /\ last.op = "get_kspace_order"
    /\ last.out = "ok"
    /\ Len(last.ret) = 2
    /\ number(cont[last.recv]) = MaxN

(***************************************************************************)
(* Properties of the elementwise algebra.                                  *)
(***************************************************************************)
Algebra == last.op \in AlgebraCalls

\* no acquisition of c is to be ignored
NoneIgnored(c) == \A p \in 1..number(c) : ~TO_BE_IGNORED(c.acqs_[p])

\* C4: an algebra call with an operand container whose sorted flag is false
\* (x, y, a or b of the container forms, the single operand of the scalar
\* and unary forms) throws before any work: no container changes, whether
\* the receiver is empty or not.
C4_UnsortedOperandThrows ==
    [][(last'.op \in AlgebraCalls
          /\ \E o \in Range(last'.args.opnds) : ~cont[o].sorted_)
        => (last'.out = "throw" /\ cont' = cont)]_vars

C4_Witness ==
    /\ last.op = "xapyb"
    /\ last.out = "throw"
    /\ cont["x"].sorted_ /\ number(cont["x"]) = MaxOperand
    /\ ~cont["y"].sorted_ /\ number(cont["y"]) = MaxOperand
    /\ number(cont["z"]) = MaxOperand

\* C5: for a binary elementwise operation z.op(x, y) with x and y sorted, both
\* of size n, and no acquisition ignored: a receiver that was empty, or that
\* held n acquisitions, afterwards holds n acquisitions and its logical
\* element k is op(x_k, y_k) for the logical elements k of x and y.
C5_BinaryOpElementwise ==
    [][(/\ last'.op = "binary_op"
        /\ LET x == cont[last'.args.opnds[1]]
               y == cont[last'.args.opnds[2]]
               z == cont[last'.recv]
           IN /\ x.sorted_ /\ y.sorted_
              /\ number(y) = number(x)
              /\ number(z) \in {0, number(x)}
              /\ NoneIgnored(x) /\ NoneIgnored(y) /\ NoneIgnored(z))
        => LET x == cont[last'.args.opnds[1]]
               y == cont[last'.args.opnds[2]]
               z == cont'[last'.recv]
           IN /\ number(z) = number(x)
              /\ \A k \in 0..(number(x) - 1) :
                   /\ get_acquisition(x, k).out = "ok"
                   /\ get_acquisition(y, k).out = "ok"
                   /\ get_acquisition(z, k).out = "ok"
                   /\ Logical(z, k).data =
                        [s \in 1..Len(Logical(y, k).data) |->
                           BinaryFn(last'.args.f, Logical(x, k).data[s],
                                    Logical(y, k).data[s])]]_vars

\* the permutation index of c is empty or covers every element of c
IndexCovers(c) == Len(c.index_) \in {0, number(c)}

\* the statement of C5 for operands whose index covers every element
BinaryOpElementwiseCovered ==
    [][(/\ last'.op = "binary_op"
        /\ LET x == cont[last'.args.opnds[1]]
               y == cont[last'.args.opnds[2]]
               z == cont[last'.recv]
           IN /\ x.sorted_ /\ y.sorted_
              /\ IndexCovers(x) /\ IndexCovers(y) /\ IndexCovers(z)
              /\ number(y) = number(x)
              /\ number(z) \in {0, number(x)}
              /\ NoneIgnored(x) /\ NoneIgnored(y) /\ NoneIgnored(z))
        => LET x == cont[last'.args.opnds[1]]
               y == cont[last'.args.opnds[2]]
               z == cont'[last'.recv]
           IN /\ number(z) = number(x)
              /\ \A k \in 0..(number(x) - 1) :
                   Logical(z, k).data =
                     [s \in 1..Len(Logical(y, k).data) |->
                        BinaryFn(last'.args.f, Logical(x, k).data[s],
                                 Logical(y, k).data[s])]]_vars

\* C6: a call of a form with two or more operand containers throws when the
\* operands differ in size, or when the receiver is non-empty and its size
\* differs from the operands'.
C6_MismatchedSizesThrow ==
    [][(/\ last'.op \in {"axpby", "xapyb", "xapyb_ab", "xapyb_b", "binary_op"}
        /\ LET n == number(cont[last'.args.opnds[1]]) IN
             \/ \E o \in Range(last'.args.opnds) : number(cont[o]) # n
             \/ number(cont[last'.recv]) \notin {0, n})
        => last'.out = "throw"]_vars

\* C7: after an algebra call that returns normally the receiver's sorted flag
\* is true and its list of subsets is the one organise_kspace() builds from
\* the receiver's final state.
C7_AlgebraLeavesSortedAndOrganised ==
    (Algebra /\ last.out = "ok") =>
      LET c == cont[last.recv] IN
      /\ c.sorted_
      /\ \E ub \in UBOutcomes(c) :
           LET o == organise_kspace(c, ub) IN
           o.out = "ok" /\ o.c.sorting_ = c.sorting_

C7_Witness ==
    /\ last.op = "axpby"
    /\ last.out = "ok"
    /\ number(cont[last.recv]) = MaxOperand
    /\ Len(cont[last.recv].sorting_) = 2

(***************************************************************************)
(* Properties of the sorted flag and of append_acquisition.                *)
(***************************************************************************)
\* C11: the sorted flag is one-way until the container is cleared: a call
\* other than empty() never turns sorted() from true to false, and after
\* empty() the container reports sorted() == false and holds no subsets.
C11_SortedOneWayUntilEmpty ==
    [][\A c \in {d \in DOMAIN cont : OneEncoding(cont[d])} :
         IF last'.op = "empty" /\ last'.recv = c
         THEN ~cont'[c].sorted_ /\ cont'[c].sorting_ = <<>>
         ELSE cont[c].sorted_ => cont'[c].sorted_]_vars

\* logical position k of container c is served by physical slot p
ServedBy(c, k, p) == index(c, k).out = "ok" /\ index(c, k).ind = p

\* C12: append_acquisition stores the acquisition at the physical end
\* (number() grows by one) and leaves the sorted flag, the index and the
\* subset list unchanged; the acquisitions stored before keep their logical
\* positions; and until the next sort the new element is in no subset and,
\* in a container that reports sorted(), at no logical position.
C12_AppendFrame ==
    [][\A c \in {d \in DOMAIN cont : OneEncoding(cont[d])} :
         last'.op = "append_acquisition" /\ last'.recv = c =>
           LET old == cont[c]
               new == cont'[c]
               p == number(old)
           IN /\ number(new) = p + 1
              /\ new.sorted_ = old.sorted_
              /\ new.index_ = old.index_
              /\ new.sorting_ = old.sorting_
              /\ \A k \in 0..(p - 1) :
                    get_acquisition(old, k).out = "ok" =>
                      get_acquisition(new, k) = get_acquisition(old, k)
              /\ \A i \in 1..Len(new.sorting_) :
                    p \notin Range(new.sorting_[i].idx_set)
              /\ new.sorted_ => \A k \in 0..p : ~ServedBy(new, k, p)]_vars

(***************************************************************************)
(* Properties of the copies between containers.                            *)
(***************************************************************************)
\* C14: containers never share an element: no acquisition object is pointed
\* to by two containers or is the caller's own object, and a call on one
\* container (a write by set_acquisition, set_data, set_subset, an algebra
\* call, conjugate or empty, or any other call) leaves every acquisition of
\* the other container unchanged, also after clone, get_subset, an append of
\* an acquisition read from the other container and an algebra write.
C14_NoSharedElement ==
    [][/\ \A c \in MemContainers :
            /\ Caller \notin Cells(cont'[c])
            /\ \A d \in MemContainers \ {c} :
                  Cells(cont'[c]) \cap Cells(cont'[d]) = {}
       /\ \A d \in MemContainers \ {last'.recv} :
            Deref(heap', cont'[d]).acqs_ = Deref(heap, cont[d]).acqs_]_vars

\* y holds copies of the elements of x and was conjugated: x still holds
\* the values that y held before
C14_Witness ==
    /\ last.op = "conjugate" /\ last.recv = "y" /\ last.out = "ok"
    /\ number(cont["x"]) = MaxOperand /\ number(cont["y"]) = MaxOperand
    /\ \A i \in 1..MaxOperand :
         LET ax == heap[cont["x"].acqs_[i]]
             ay == heap[cont["y"].acqs_[i]]
         IN /\ ay.ts = ax.ts /\ ay.flags = ax.flags /\ ay.idx = ax.idx
            /\ ay.data = [s \in 1..Len(ax.data) |-> Conj(ax.data[s])]
            /\ ay.data # ax.data

\* C13: get_subset(dest, idx) throws when dest holds an acquisition and
\* set_subset(src, idx) throws when src.number() differs from idx.size(); a
\* call that throws leaves the target container (dest of get_subset, the
\* receiver of set_subset) with the acquisitions and the header it had; a
\* get_subset that returns leaves in dest the copies of the source's
\* logical elements idx[0], idx[1], ... in list order.
C13_SubsetCalls ==
    [][LET op == last'.op
           t == last'.recv
           idx == last'.args.sc
           before == Deref(heap, cont[t])
           after == Deref(heap', cont'[t])
       IN /\ op = "get_subset" =>
               LET x == Deref(heap, cont[last'.args.opnds[1]]) IN
               /\ number(before) > 0 => last'.out = "throw"
               /\ last'.out = "ok" =>
                    /\ number(after) = Len(idx)
                    /\ \A i \in 1..Len(idx) :
                         /\ get_acquisition(x, idx[i]).out = "ok"
                         /\ after.acqs_[i] = get_acquisition(x, idx[i]).acq
          /\ op = "set_subset" =>
               LET src == Deref(heap, cont[last'.args.opnds[1]]) IN
               number(src) # Len(idx) => last'.out = "throw"
          /\ op \in {"get_subset", "set_subset"} /\ last'.out = "throw" =>
               /\ after.acqs_ = before.acqs_
               /\ after.acqs_info_ = before.acqs_info_]_vars

(***************************************************************************)
(* Properties of the file I/O.                                             *)
(***************************************************************************)
\* the sample data and the index tuple of an acquisition
DataAndIdx(acq) == [data |-> acq.data, idx |-> acq.idx]

\* how many elements of c carry the sample data and index tuple of acq
Copies(c, acq) ==
    Cardinality({i \in 1..number(c) : DataAndIdx(c.acqs_[i]) = DataAndIdx(acq)})

\* C15: round trip: write(file) of a container of N >= 1 acquisitions
\* followed by read(file) into a fresh container completes and leaves N
\* acquisitions, in a logical order of non-decreasing time stamps, with the
\* sample data and index tuples of the original acquisitions.
C15_RoundTrip ==
    [][(/\ last.op = "write" /\ last.out = "ok" /\ last.recv = "x"
        /\ number(cont["x"]) >= 1
        /\ last'.op = "read" /\ last'.args.f = last.args.f) =>
         LET x == cont["x"]
             r == cont'[last'.recv]
         IN /\ last'.out = "ok"
            /\ number(r) = number(x)
            /\ \A i \in 1..number(x) : Copies(r, x.acqs_[i]) = Copies(x, x.acqs_[i])
            /\ \A i \in 0..(number(r) - 1) : \A j \in 0..(number(r) - 1) :
                  i < j => Logical(r, i).ts <= Logical(r, j).ts]_vars

\* C17: the I/O lock is released on every exit path: whenever a call has
\* returned or thrown the lock is free, and no I/O call blocks forever.
C17_LockReleased == mutex = "free" /\ last.out # "blocked"

(***************************************************************************)
(* Properties of the ignore filter.                                        *)
(***************************************************************************)
\* none of the four exempting flags is set and the flags word is at least
\* 2^(ISMRMRD_ACQ_IS_NOISE_MEASUREMENT - 1): some flag from the noise
\* measurement flag upwards is set
IgnoredByFlags(acq) ==
    /\ acq.flags \cap {ISMRMRD_ACQ_IS_PARALLEL_CALIBRATION,
                       ISMRMRD_ACQ_IS_PARALLEL_CALIBRATION_AND_IMAGING,
                       ISMRMRD_ACQ_LAST_IN_MEASUREMENT,
                       ISMRMRD_ACQ_IS_REVERSE} = {}
    /\ \E b \in acq.flags : b >= ISMRMRD_ACQ_IS_NOISE_MEASUREMENT

\* the logical elements of c that are not to be ignored, in logical order
NonIgnored(c) ==
    SelectSeq([k \in 1..number(c) |-> Logical(c, k - 1)],
              LAMBDA a : ~IgnoredByFlags(a))

\* the value of greatest real part among 0 and v[1], ..., v[n]
RECURSIVE MaxReal(_, _)
MaxReal(v, n) ==
    IF n = 0 THEN Complex(0, 0)
    ELSE LET m == MaxReal(v, n - 1) IN IF Re(v[n]) > Re(m) THEN v[n] ELSE m

RECURSIVE SumOfSquares(_, _)
SumOfSquares(v, n) == IF n = 0 THEN 0 ELSE SumOfSquares(v, n - 1) + v[n] * v[n]

\* C16: an acquisition is ignored (get_acquisition returns 0, TO_BE_IGNORED
\* holds) exactly when none of the flags parallel calibration, parallel
\* calibration and imaging, last in measurement, reverse is set and its
\* flags word is at least 2^(NOISE_MEASUREMENT - 1); sum, max, norm, dot and
\* the container algebra skip the ignored acquisitions and use every other
\* acquisition of their operands, and read() drops the ignored acquisitions
\* unless all is not 0.
C16_IgnoredAreSkipped ==
    [][/\ \A c \in DOMAIN cont : \A k \in 0..(number(cont'[c]) - 1) :
            LET g == get_acquisition(cont'[c], k) IN
            g.out = "ok" =>
              /\ (g.ret = 0) <=> IgnoredByFlags(g.acq)
              /\ TO_BE_IGNORED(g.acq) <=> IgnoredByFlags(g.acq)
       /\ last'.out = "ok" =>
            LET op == last'.op
                x == NonIgnored(cont[last'.recv])
                nx == Len(x)
            IN /\ op = "sum" =>
                    last'.ret = CSum([k \in 1..nx |-> sum_acq(x[k])], nx)
               /\ op = "max" =>
                    last'.ret = MaxReal([k \in 1..nx |-> max_acq(x[k])], nx)
               /\ op = "norm" =>
                    last'.ret =
                      Isqrt(SumOfSquares([k \in 1..nx |-> norm_acq(x[k])], nx))
               /\ (op = "dot" /\ number(cont[last'.args.opnds[1]])
                                  = number(cont[last'.recv])) =>
                    LET y == NonIgnored(cont[last'.args.opnds[1]]) IN
                    /\ Len(y) = nx
                    /\ last'.ret =
                         CSum([k \in 1..nx |-> dot_acq(x[k], y[k])], nx)
               /\ (op = "unary_op" /\ number(cont[last'.recv]) = 0) =>
                    LET u == NonIgnored(cont[last'.args.opnds[1]])
                        z == cont'[last'.recv]
                    IN /\ number(z) = Len(u)
                       /\ \A k \in 1..Len(u) :
                            z.acqs_[k] = unary_op_acq(u[k], u[k], last'.args.f)
               /\ (op = "binary_op" /\ number(cont[last'.recv]) = 0
                      /\ number(cont[last'.args.opnds[1]])
                           = number(cont[last'.args.opnds[2]])) =>
                    LET u == NonIgnored(cont[last'.args.opnds[1]])
                        v == NonIgnored(cont[last'.args.opnds[2]])
                        z == cont'[last'.recv]
                    IN /\ number(z) = Len(u) /\ number(z) = Len(v)
                       /\ \A k \in 1..number(z) :
                            z.acqs_[k] =
                              binary_op_acq(u[k], v[k], last'.args.f)
               /\ op = "read" =>
                    cont'[last'.recv].acqs_ =
                      IF last'.args.sc[1] = 0
                      THEN SelectSeq(file.acqs, LAMBDA a : ~IgnoredByFlags(a))
                      ELSE file.acqs]_vars

(***************************************************************************)
(* Properties of the C entry points.                                       *)
(***************************************************************************)
\* C18: no exception leaves an entry point: whatever the core throws while
\* it serves the call, the entry point returns a handle, and when the core
\* threw the handle carries the error status.
C18_NoExceptionEscapes ==
    last.op \in {"cGT_appendAcquisition", "cGT_sortAcquisitions",
                 "cGT_acquisitionFromContainer", "cGT_fillAcquisitionData",
                 "cGT_fillAcquisitionDataFromAcquisitionData"}
        => last.out \in {"handle", "status"}

(***************************************************************************)
(* Properties of the algebra of image containers.                          *)
(***************************************************************************)
ImageAlgebra == {"image_axpby", "image_xapyb", "image_binary_op"}

\* the sizes the call compares are not all equal: x against y, a container
\* of coefficients that is not empty against x, a receiver that is not
\* empty against x
ImageSizesMismatch(call) ==
    LET nx == items(cont["x"])
        Coef == IF call.op = "image_xapyb"
                THEN {call.args.opnds[2], call.args.opnds[4]} \ {""} ELSE {}
    IN \/ nx # items(cont["y"])
       \/ \E c \in Coef : items(cont[c]) > 0 /\ items(cont[c]) # nx
       \/ items(cont[call.recv]) > 0 /\ items(cont[call.recv]) # nx

\* C19: an algebra call on image containers throws when the sizes do not
\* match (x against y, a non-empty container of coefficients against x, a
\* non-empty receiver against x) and then leaves the receiver as it was;
\* no sorted flag is asked for: with matching sizes and full containers of
\* coefficients the call throws only where set_up_geom_info() does (for a
\* largest slice index above 0, with 3D data or with a single image),
\* whatever the sorted flags.
C19_ImageSizeChecks ==
    [][last'.op \in ImageAlgebra /\ last.op \notin ImageAlgebra =>
         LET z == last'.recv
             Coef == IF last'.op = "image_xapyb"
                     THEN {last'.args.opnds[2], last'.args.opnds[4]} \ {""}
                     ELSE {}
         IN /\ ImageSizesMismatch(last') =>
                 last'.out = "throw" /\ cont'[z] = cont[z]
            /\ (/\ ~ImageSizesMismatch(last')
                /\ \A c \in Coef : items(cont[c]) = items(cont["x"])
                /\ last'.out = "throw") =>
                 /\ items(cont'[z]) > 0
                 /\ MaxSlice(cont'[z], items(cont'[z]) - 1) > 0
                 /\ cont'[z].images_[1].nz > 1 \/ items(cont'[z]) = 1]_vars

C19_Witness ==
    /\ last.op \in ImageAlgebra /\ last.out = "throw"
    /\ items(cont["x"]) = items(cont["y"])
    /\ items(cont["z"]) > 0 /\ items(cont["z"]) # items(cont["x"])

\* C20: when z.axpby(a, x, b, y) has returned, z holds as many images as x
\* and image i of z is a * x_i + b * y_i for every position i, whether z
\* was empty or held that many images before, whatever the headers of the
\* images and the sorted flags.
C20_AxpbyAligned ==
    [][(last'.op = "image_axpby" /\ last.op \notin ImageAlgebra
        /\ last'.out = "ok") =>
         LET z == cont'[last'.recv]
             x == cont["x"]
             y == cont["y"]
             a == last'.args.sc[1]
             b == last'.args.sc[2]
         IN /\ items(z) = items(x)
            /\ \A i \in 0..(items(x) - 1) :
                 sptr_image_wrap(z, i).iw.data =
                   [s \in 1..Len(sptr_image_wrap(x, i).iw.data) |->
                      CAdd(CMul(a, sptr_image_wrap(x, i).iw.data[s]),
                           CMul(b, sptr_image_wrap(y, i).iw.data[s]))]]_vars

(***************************************************************************)
(* Properties of the reductions.                                           *)
(***************************************************************************)
\* C27: max of an acquisition and max of a container return the value of
\* the sample of greatest real part among the samples (of the acquisitions
\* that are not ignored), also when all real parts are negative.
C27_MaxIsAnElement ==
    [][(last'.op = "max" /\ last'.out = "ok") =>
         LET used == NonIgnored(cont[last'.recv])
             samples == UNION {Range(used[k].data) : k \in 1..Len(used)}
         IN /\ \A k \in 1..Len(used) :
                 /\ max_acq(used[k]) \in Range(used[k].data)
                 /\ \A v \in Range(used[k].data) : Re(v) <= Re(max_acq(used[k]))
            /\ samples # {} =>
                 /\ last'.ret \in samples
                 /\ \A v \in samples : Re(v) <= Re(last'.ret)]_vars

(***************************************************************************)
(* Properties of the permutation index.                                    *)
(***************************************************************************)
\* C28: in every reachable state the index of a container is empty or a
\* permutation of 0 .. number() - 1; so get_acquisition(i) and
\* set_acquisition(i, .) succeed for every i in 0 .. number() - 1 and every
\* physical slot is served at exactly one logical position.
C28_IndexIsPermutation ==
    \A c \in DOMAIN cont :
      LET n == number(cont[c]) IN
      /\ \/ cont[c].index_ = <<>>
         \/ /\ Len(cont[c].index_) = n
            /\ Range(cont[c].index_) = 0..(n - 1)
      /\ \A i \in 0..(n - 1) :
           /\ get_acquisition(cont[c], i).out = "ok"
           /\ set_acquisition(cont[c], i, cont[c].acqs_[1]).out = "ok"
      /\ \A p \in 0..(n - 1) :
           Cardinality({i \in 0..(n - 1) : ServedBy(cont[c], i, p)}) = 1

(***************************************************************************)
(* Properties of the kernels on single acquisitions.                       *)
(***************************************************************************)
\* the operands whose sample arrays the kernel k walks through
KernOperands(k) ==
    CASE k = "xapyb" -> {"x", "a", "y", "b"}
      [] k = "xapyb_b" -> {"x", "y", "b"}
      [] OTHER -> {"x", "y"}

\* C29: a kernel stops at the shortest of the sample arrays of its
\* operands: it writes no sample of y behind that length, and what it
\* writes does not depend on anything behind the end of an operand.
C29_KernelsStopAtShortest ==
    [][last'.op \in Kernels =>
         LET k == last'.op
             y == cont["y"].acqs_[1]
             yn == cont'["y"].acqs_[1]
             lens == {Len(cont[c].acqs_[1].data) : c \in KernOperands(k)}
             m == CHOOSE n \in lens : \A l \in lens : n <= l
         IN /\ Len(yn.data) = Len(y.data)
            /\ \A s \in (m + 1)..Len(y.data) : yn.data[s] = y.data[s]
            /\ k = "xapyb" =>
                 \A junk \in JunkValues :
                   yn = xapyb_acq(cont["x"].acqs_[1], cont["a"].acqs_[1], y,
                                  cont["b"].acqs_[1], junk)]_vars

(***************************************************************************)
(* Properties of the loops of the container-level algebra.                 *)
(***************************************************************************)
\* the sum of the cursors of the loop of the running call
CursorSum(call) ==
    LET p == call.ret
        RECURSIVE CurSum(_)
        CurSum(R) == IF R = {} THEN 0
                     ELSE LET r == CHOOSE q \in R : TRUE
                          IN p.cur[r] + CurSum(R \ {r})
    IN CurSum(DOMAIN p.cur) + p.k

GeomHeaders(c) == {c.images_[i] : i \in 1..items(c)}

\* the directions of every image are unit vectors, the same in all images,
\* and pairwise orthogonal
DirectionsValid(c) ==
    /\ \A ih \in GeomHeaders(c) :
         /\ Scalar(ih.read_dir, ih.read_dir) = 1
         /\ Scalar(ih.phase_dir, ih.phase_dir) = 1
         /\ Scalar(ih.slice_dir, ih.slice_dir) = 1
         /\ Scalar(ih.read_dir, ih.phase_dir) = 0
         /\ Scalar(ih.read_dir, ih.slice_dir) = 0
         /\ Scalar(ih.phase_dir, ih.slice_dir) = 0
    /\ \A ih1 \in GeomHeaders(c), ih2 \in GeomHeaders(c) :
         /\ ih1.read_dir = ih2.read_dir
         /\ ih1.phase_dir = ih2.phase_dir
         /\ ih1.slice_dir = ih2.slice_dir

\* C21: after set_up_geom_info() the container has a geometry descriptor
\* only if the directions of every image are unit vectors, equal in all
\* images and pairwise orthogonal; if one of these fails it has none.
C21_GeometryOnlyForValidDirections ==
    (last.op = "set_meta_data" /\ last.out = "ok" /\ items(cont["g"]) > 0)
      => (cont["g"].geom_info_ # NoGeomInfo => DirectionsValid(cont["g"]))

\* the number of distinct slice indices among the images
DistinctSlices(c) == Cardinality({ih.slice : ih \in GeomHeaders(c)})

\* C22: for images of valid directions, set_up_geom_info() takes the
\* container for a stack of 2D slices exactly if matrix_size[2] is 1 and
\* more than one distinct slice index occurs, it throws exactly if more than
\* one distinct slice index occurs with matrix_size[2] > 1, and for a single
\* image it neither takes a stack nor throws.
C22_StackDecision ==
    [][(last'.op = "set_meta_data" /\ items(cont["g"]) > 0
          /\ DirectionsValid(cont["g"]))
       => LET c == cont'["g"]
              nz == c.images_[1].nz
          IN /\ last'.ret <=> (nz = 1 /\ DistinctSlices(c) > 1)
             /\ last'.out = "throw" <=> (nz > 1 /\ DistinctSlices(c) > 1)
             /\ items(c) = 1 => (~last'.ret /\ last'.out = "ok")]_vars

(***************************************************************************)
(* Properties of forward and backward of the coil sensitivity maps.        *)
(***************************************************************************)
CsmCalls == {"forward", "backward"}

\* the positions i, i + 1, ... (modulo the number of maps) at which the map
\* has the slice and the contrast of image iw
TagMatches(csm, iw, i) ==
    {j \in 0..(items(csm) - 1) :
       LET m == csm.images_[((i + j) % items(csm)) + 1] IN
       m.slice = iw.slice /\ m.contrast = iw.contrast}

\* the first of them
TagMatch(csm, iw, i) ==
    csm.images_[((i + CHOOSE j \in TagMatches(csm, iw, i) :
                        \A k \in TagMatches(csm, iw, i) : j <= k)
                  % items(csm)) + 1]

\* C23: forward and backward pair image i with the first map, searched
\* cyclically from position i, that has the slice and the contrast of
\* image i: a call that returns has made image i of its result from that
\* map, and a call for an image without such a map throws.
C23_MapsMatchedBySliceAndContrast ==
    [][(last'.op \in CsmCalls /\ items(cont["img"]) = items(cont["csm"])) =>
         LET csm == cont["csm"]
             img == cont["img"]
             dst == cont'["dst"]
         IN /\ (\E i \in 1..items(img) : TagMatches(csm, img.images_[i], i - 1) = {})
                 => last'.out = "throw"
            /\ last'.out = "ok" =>
                 \A i \in 1..items(img) :
                    /\ TagMatches(csm, img.images_[i], i - 1) # {}
                    /\ \E junk \in JunkValues :
                         dst.images_[i] =
                           IF last'.op = "forward"
                           THEN CoilChannels(img.images_[i],
                                  TagMatch(csm, img.images_[i], i - 1), junk)
                           ELSE CombineChannels(img.images_[i],
                                  TagMatch(csm, img.images_[i], i - 1), junk)]_vars

\* C24: forward with fewer maps than combined images, each image of one
\* channel having a map of its slice, returns and fills dst with one image
\* of the channels of the maps per combined image.
C24_ForwardReusesMaps ==
    [][(/\ last'.op = "forward"
        /\ items(cont["csm"]) > 0
        /\ items(cont["csm"]) < items(cont["img"])
        /\ \A i \in 1..items(cont["img"]) :
             /\ cont["img"].images_[i].channels = 1
             /\ get_dim(cont["img"].images_[i]) = get_dim(cont["img"].images_[1])
             /\ \E j \in 1..items(cont["csm"]) :
                  /\ cont["csm"].images_[j].slice = cont["img"].images_[i].slice
                  /\ cont["csm"].images_[j].contrast = 0)
       => /\ last'.out = "ok"
          /\ items(cont'["dst"]) = items(cont["img"])
          /\ \A i \in 1..items(cont'["dst"]) :
               cont'["dst"].images_[i].channels = CsmChannels]_vars

\* the images of the input do not all have the dimensions of image 0
InputDimsDiffer(img) ==
    \E i \in 1..items(img) : get_dim(img.images_[i]) # get_dim(img.images_[1])

\* C25: forward and backward throw when the images of the input do not all
\* have the same dimensions, backward throws when an image has other
\* dimensions than the map it is paired with, and then dst holds no result.
C25_DimensionsValidated ==
    [][(last'.op \in CsmCalls /\ items(cont["img"]) = items(cont["csm"])) =>
         LET csm == cont["csm"]
             img == cont["img"]
             paired(i) == get_csm_as_cfimage(csm, get_tag_from_img(img.images_[i]),
                                             i - 1)
         IN (\/ InputDimsDiffer(img)
             \/ /\ last'.op = "backward"
                /\ \E i \in 1..items(img) :
                     /\ paired(i).out = "ok"
                     /\ get_dim(paired(i).iw) # get_dim(img.images_[i]))
            => /\ last'.out = "throw"
               /\ items(cont'["dst"]) = 0]_vars

(***************************************************************************)
(* Properties of the coil images.                                          *)
(***************************************************************************)
\* the acquisitions of c with a calibration flag, as a bag
Flagged(c) ==
    LET F == {i \in 1..number(c) :
                \E f \in calibration_flags : isFlagSet(c.acqs_[i], f)}
    IN [a \in {c.acqs_[i] : i \in F} |->
          Cardinality({i \in F : c.acqs_[i] = a})]

AllOf(c) ==
    [a \in {c.acqs_[i] : i \in 1..number(c)} |->
       Cardinality({i \in 1..number(c) : c.acqs_[i] = a})]

\* C26: calculate() on Cartesian data takes as calibration data exactly the
\* acquisitions with a calibration flag, sorted by time and organised,
\* if there is one, and a copy of all acquisitions otherwise; it appends
\* one coil image per non-empty subset of the calibration data; without
\* flagged acquisitions it returns for every input that is not empty,
\* sorted or not.
C26_CalibrationData ==
    [][(last'.op = "calculate" /\ number(cont["ad"]) > 0) =>
         LET ad == cont["ad"]
             calib == cont'["calib"]
             civ == cont'["civ"]
             tags == {get_tag_from_acquisition(calib.acqs_[i]) :
                        i \in 1..number(calib)}
         IN /\ Flagged(ad) = <<>> =>
                 /\ last'.out = "ok"
                 /\ AllOf(calib) = AllOf(ad)
            /\ (Flagged(ad) # <<>> /\ last'.out = "ok") =>
                 /\ AllOf(calib) = Flagged(ad)
                 /\ calib.sorted_
                 /\ \A i \in 0..(number(calib) - 1), j \in 0..(number(calib) - 1) :
                      i < j => get_acquisition(calib, i).acq.ts
                                 <= get_acquisition(calib, j).acq.ts
            /\ last'.out = "ok" =>
                 items(civ) = items(cont["civ"]) + Cardinality(tags)]_vars

====
